---- MODULE Spec2Model ----
(***************************************************************************)
(* AirChat, private chat page: the mic stage.                              *)
(*                                                                         *)
(* The stage is one document of the shared store, mic_stage/current_stage, *)
(* holding the array `mics`.  Every client page runs handleMicAction for   *)
(* its three mic buttons and a live listener on the document.  A handler   *)
(* call suspends at its read (getDoc) and at its write (setDoc); the steps *)
(* of different calls interleave freely.                                   *)
(***************************************************************************)
EXTENDS Integers, Sequences, FiniteSets, TLC

\* ------------------------------------------------------------------ bounds
NumUsers == 2        \* signed-in clients that act on the stage
MaxOps == 3          \* button clicks in one behaviour
NumRequesters == 5   \* clients of the behaviours made of requests only
NumFriendUsers == 2  \* users of the behaviours made of friend requests
MaxFriendOps == 3    \* calls of sendFriendRequest in one behaviour
NumListUsers == 3    \* users of the behaviours of one page's friends list
NumRosterUsers == 4  \* users of the behaviours that draw the lists of users
NumChatUsers == 2    \* users of the behaviours made of chat operations
MaxChatOps == 3      \* chat operations in one behaviour
MaxStamp == 3        \* values of Date.now() in one behaviour
MaxStored == 51      \* messages a feed holds from earlier sessions

\* --------------------------------------------------------- program constants
MicCount == 4        \* the stage has 4 mic spots
NotFound == -1       \* Array.prototype.findIndex: no element matches
FeedLimit == 50      \* limit(50) of the message queries

\* ------------------------------------------------------------------ values
Users == 1..NumUsers                \* currentUser.id of the signed-in clients
ResidentId(i) == NumUsers + i       \* ids seated by earlier page sessions
OneCallEach(U) == U \X {1}          \* calls are <<client, call slot>>

NoUser == 0                         \* userId of a null mic spot

\* A mic spot is null or an object; of the object only userId and isMuted are
\* read by the operations (username, avatar, isSpeaking and timestamp ride
\* along unread and are left out).
NullMic == [userId |-> NoUser, isMuted |-> FALSE]
NewMic(uid) == [userId |-> uid, isMuted |-> FALSE]

\* Faulty variant: one spot short.
MutEmptyMics == [i \in 1..(MicCount - 1) |-> NullMic]

\* { mics: [null, null, null, null] }
EmptyMics == [i \in 1..MicCount |-> NullMic]
AbsentDoc == [exists |-> FALSE, mics |-> <<>>]
StageDoc(mics) == [exists |-> TRUE, mics |-> mics]

VARIABLES
    stage,          \* the stored document mic_stage/current_stage
    pc,             \* per call: "idle", "getDoc", "setDoc", "ack"
    action,         \* per call: "request", "leave", "toggleMute" ("none" if idle)
    micStageData,   \* per call: the mics array held in memory
    lastAlert,      \* per client: the last showCustomAlert message
    isMuted,        \* per client: the page's local mute flag
    canMicAscent,   \* per client: currentUser.canMicAscent
    btnDisabled,    \* per client: which mic buttons the last render disabled
    notify,         \* per client: a snapshot of the document is due to the listener
    initWrite,      \* per client: the listener's initialising setDoc is in flight
    micCircles,     \* per client: the mic circles the last render drew
    shownMics,      \* history: per client, the array last passed to renderMicCircles
    ops,            \* clicks so far
    asked           \* history: the clients whose request reached its setDoc

micVars == <<stage, pc, action, micStageData, lastAlert, isMuted, canMicAscent,
             btnDisabled, notify, initWrite, micCircles, shownMics, ops, asked>>

\* The friend collections of the store, users/{id}/..., and the calls of
\* sendFriendRequest.  A call is <<user, call slot>>.
VARIABLES
    friends,                    \* <<owner, friend>>: a document users/owner/friends/friend
    received_friend_requests,   \* records [id, to, from]: documents of user `to`
    sent_friend_requests,       \* records [id, owner, to]: documents of user `owner`
    nextReqId,                  \* the next automatic document id
    fpc,                        \* per call: where sendFriendRequest is suspended
    ftarget,                    \* per call: targetUserId
    fpage,                      \* per call: the page it runs on, "private" or "public"
    freqId,                     \* per call: newRequestRef.id
    friendAlert,                \* per user: the last alert of sendFriendRequest
    fops                        \* calls of sendFriendRequest so far

friendVars == <<friends, received_friend_requests, sent_friend_requests, nextReqId,
                fpc, ftarget, fpage, freqId, friendAlert, fops>>

\* The message feeds of the store, private_chats/{id}/messages and
\* public_rooms/{room}/messages, and the state of every open page: its chat
\* view, its friends list and its live subscriptions.  A page is named by the
\* user signed in on it.
VARIABLES
    users,                  \* the documents users/{id}: [username, isOnline]
    messages,               \* the message documents in the order the store accepted them
    pendingAdds,            \* the addDoc calls in flight
    page,                   \* per page: "private" or "public"
    selectedFriendId,       \* per page: the chat partner (NoUser: none)
    sendDisabled,           \* per page: messageInput.disabled and sendMessageBtn.disabled
    chatMessagesDisplay,    \* per page: the messages shown, first to last
    subs,                   \* per page: the subscriptions it has opened, oldest first
    unsubscribe,            \* per page: per kind, the subscription its handle variable holds
    selpc,                  \* per call of selectFriend: "idle" or "getDoc"
    friendId,               \* per call of selectFriend: its argument
    friendsListDiv,         \* per page: the friends list shown, first to last
    usersListDiv,           \* per page: the room roster shown, first to last
    fljobs,                 \* per page: the runs of the friends callback suspended at getDoc
    touched,                \* per page: own friend documents rewritten since its last snapshot
    unloaded,               \* per page: beforeunload has run
    lateCallbacks,          \* history: per page, the kinds of callback run after beforeunload
    chatAlert,              \* per page: the last alert of a chat operation
    chatOps                 \* chat operations so far

pageVars == <<users, messages, pendingAdds, page, selectedFriendId, sendDisabled,
              chatMessagesDisplay, subs, unsubscribe, selpc, friendId, friendsListDiv,
              usersListDiv, fljobs, touched, unloaded, lateCallbacks, chatAlert,
              chatOps>>

\* The block lists of the store, users/{id}/blocked_users, and the session of
\* each page: whether its user is signed in with the auth service, and the
\* logout handler.
VARIABLES
    blocked_users,          \* <<owner, blocked>>: a document users/owner/blocked_users/blocked
    signedIn,               \* per page: the auth service holds a session of its user
    logoutpc,               \* per page: "idle", "updateDoc" or "signOut"
    logoutAlert             \* per page: the last alert of the logout handler

accountVars == <<blocked_users, signedIn, logoutpc, logoutAlert>>

vars == <<micVars, friendVars, pageVars, accountVars>>

\* ----------------------------------------------------------- pure helpers

\* JS index i (0-based) of a mics array is element i + 1 of the sequence.
At(mics, i) == mics[i + 1]

\* mics[i] = v: an index past the end extends the array.
SetAt(mics, i, v) ==
    IF i < Len(mics) THEN [mics EXCEPT ![i + 1] = v]
    ELSE [j \in 1..(i + 1) |-> IF j <= Len(mics) THEN mics[j]
                               ELSE IF j = i + 1 THEN v ELSE NullMic]

Min(S) == CHOOSE x \in S : \A y \in S : x <= y

\* Faulty variant: the lookup never finds the user.
MutCurrentMicIndexNone(mics, uid) == NotFound

\* Faulty variant: the first taken spot, whoever holds it.
MutCurrentMicIndexAny(mics, uid) ==
    LET hits == {i \in 0..(Len(mics) - 1) : At(mics, i).userId # NoUser}
    IN  IF hits = {} THEN NotFound ELSE Min(hits)

\* mics.findIndex(mic => mic && mic.userId === uid)
CurrentMicIndex(mics, uid) ==
    LET hits == {i \in 0..(Len(mics) - 1) : At(mics, i).userId = uid}
    IN  IF hits = {} THEN NotFound ELSE Min(hits)

\* Faulty variant: with no empty spot, the index past the end (a fifth spot).
MutEmptyMicIndexPush(mics) ==
    LET hits == {i \in 0..(Len(mics) - 1) : At(mics, i).userId = NoUser}
    IN  IF hits = {} THEN Len(mics) ELSE Min(hits)

\* Faulty variant: the last empty spot instead of the first.
MutEmptyMicIndexLast(mics) ==
    LET hits == {i \in 0..(Len(mics) - 1) : At(mics, i).userId = NoUser}
    IN  IF hits = {} THEN NotFound ELSE CHOOSE x \in hits : \A y \in hits : y <= x

\* mics.findIndex(mic => !mic || !mic.userId)
EmptyMicIndex(mics) ==
    LET hits == {i \in 0..(Len(mics) - 1) : At(mics, i).userId = NoUser}
    IN  IF hits = {} THEN NotFound ELSE Min(hits)

\* Faulty variant: no default for an absent document.
MutReadMicsNoDefault(doc) == doc.mics

\* micStageSnap.exists() ? micStageSnap.data() : { mics: [null, null, null, null] }
ReadMics(doc) == IF doc.exists THEN doc.mics ELSE EmptyMics

\* The users seated in a mics array.
Seated(mics) == {mics[i].userId : i \in 1..Len(mics)} \ {NoUser}

\* mics.some(mic => mic && mic.userId === uid)
OnMic(mics, uid) == \E i \in 1..Len(mics) : mics[i].userId = uid

\* while (mics.length < 4) mics.push(null)
PadMics(mics) ==
    IF Len(mics) >= MicCount THEN mics
    ELSE mics \o [i \in 1..(MicCount - Len(mics)) |-> NullMic]

\* micStageData.mics[emptyMicIndex] = { userId, ..., isMuted: false, ... }
TakeMic(mics, i, uid) == SetAt(mics, i, NewMic(uid))

\* Faulty variant: the spot is left as it was.
MutClearMicKeeps(mics, i) == mics

\* micStageData.mics[currentMicIndex] = null
ClearMic(mics, i) == SetAt(mics, i, NullMic)

\* Faulty variant: the flag is set instead of flipped.
MutToggleMicMutes(mics, i) == SetAt(mics, i, [At(mics, i) EXCEPT !.isMuted = TRUE])

\* micStageData.mics[currentMicIndex].isMuted = !...isMuted
ToggleMic(mics, i) == SetAt(mics, i, [At(mics, i) EXCEPT !.isMuted = ~@])

\* mics[i] of the render loop: an index past the end reads undefined.
MicData(mics, i) == IF i < Len(mics) THEN At(mics, i) ELSE NullMic

\* Faulty variant: the muted flag of the other users is not looked at.
MutMicCircleIgnoresMute(micData, uid, muted, speak) ==
    IF micData.userId # NoUser
    THEN [username |-> micData.userId,
          onStage  |-> TRUE,
          active   |-> micData.userId = uid,
          slash    |-> micData.userId = uid /\ muted,
          speaking |-> micData.userId = uid /\ ~muted /\ speak]
    ELSE [username |-> NoUser, onStage |-> FALSE, active |-> FALSE,
          slash |-> FALSE, speaking |-> FALSE]

\* One circle of renderMicCircles: the label, the classes on-stage, active and
\* speaking, and the icon (slash: fa-microphone-slash).  muted is the page's
\* isMuted, speak the outcome of Math.random() > 0.7.
MicCircle(micData, uid, muted, speak) ==
    IF micData.userId # NoUser
    THEN [username |-> micData.userId,
          onStage  |-> TRUE,
          active   |-> micData.userId = uid,
          slash    |-> IF micData.userId = uid THEN muted ELSE micData.isMuted,
          speaking |-> micData.userId = uid /\ ~muted /\ speak]
    ELSE [username |-> NoUser, onStage |-> FALSE, active |-> FALSE,
          slash |-> FALSE, speaking |-> FALSE]

\* The circles renderMicCircles(mics) draws: micCount of them, whatever the
\* length of mics.
RenderMicCircles(mics, uid, muted, speak) ==
    [i \in 1..MicCount |-> MicCircle(MicData(mics, i - 1), uid, muted, speak)]

\* The button states renderMicCircles leaves behind.
RenderButtons(mics, uid, can) ==
    [request    |-> OnMic(mics, uid) \/ ~can,
     leave      |-> ~OnMic(mics, uid),
     toggleMute |-> ~OnMic(mics, uid)]

\* ------------------------------------------------------------------- Init

\* The document as earlier sessions may have left it: absent, with one spot
\* taken by a muted occupant and a gap before it, or with every spot taken.
InitStages ==
    {AbsentDoc,
     StageDoc([i \in 1..MicCount |->
                 IF i = 2 THEN [userId |-> ResidentId(i), isMuted |-> TRUE]
                 ELSE NullMic]),
     StageDoc([i \in 1..MicCount |-> NewMic(ResidentId(i))])}

\* Every page starts with its buttons enabled, its listener subscribed (the
\* first snapshot is due) and no call running.  P gives the call slots: how
\* many calls of one client may be suspended at a time.
InitClients(U, P) ==
    /\ pc = [p \in P |-> "idle"]
    /\ action = [p \in P |-> "none"]
    /\ micStageData = [p \in P |-> <<>>]
    /\ lastAlert = [c \in U |-> "none"]
    /\ isMuted = [c \in U |-> FALSE]
    /\ btnDisabled = [c \in U |->
                        [request |-> FALSE, leave |-> FALSE, toggleMute |-> FALSE]]
    /\ notify = [c \in U |-> TRUE]
    /\ initWrite = [c \in U |-> FALSE]
    /\ micCircles = [c \in U |-> <<>>]
    /\ shownMics = [c \in U |-> <<>>]
    /\ ops = 0
    /\ asked = {}

\* The friend collections with the edges E, no request, and no call running.
InitFriends(E, U, F) ==
    /\ friends = E
    /\ received_friend_requests = {}
    /\ sent_friend_requests = {}
    /\ nextReqId = 1
    /\ fpc = [f \in F |-> "idle"]
    /\ ftarget = [f \in F |-> NoUser]
    /\ fpage = [f \in F |-> "none"]
    /\ freqId = [f \in F |-> 0]
    /\ friendAlert = [u \in U |-> "none"]
    /\ fops = 0

\* The kinds of live subscription and the handle variable of each:
\* privateChatMessagesUnsubscribe or publicChatMessagesUnsubscribe,
\* friendsListUnsubscribe, friendRequestsUnsubscribe, micStageUnsubscribe,
\* roomUsersUnsubscribe.
Kinds == {"messages", "friends", "requests", "micStage", "roomUsers"}
NoSub == 0                          \* a handle variable that is null

\* The feed of the public room (currentRoomId = 'public_chat_room').
PublicFeed == [coll |-> "public_rooms", id |-> <<"public_chat_room">>]
NoFeed == [coll |-> "none", id |-> <<>>]

\* onSnapshot(...): a live subscription that has delivered nothing yet.
NewSub(kind, feed) == [kind |-> kind, feed |-> feed, seen |-> {}, live |-> TRUE]

\* What setupFirestoreListeners of each page has opened, and the handles (the
\* lobby page, "index", opens no subscription).
InitSubs(pg) ==
    IF pg = "private"
    THEN <<NewSub("friends", NoFeed), NewSub("requests", NoFeed),
           NewSub("micStage", NoFeed)>>
    ELSE IF pg = "public"
    THEN <<NewSub("messages", PublicFeed), NewSub("roomUsers", NoFeed)>>
    ELSE <<>>

InitHandles(pg) ==
    IF pg = "private"
    THEN [k \in Kinds |-> CASE k = "friends" -> 1 [] k = "requests" -> 2
                            [] k = "micStage" -> 3 [] OTHER -> NoSub]
    ELSE IF pg = "public"
    THEN [k \in Kinds |-> CASE k = "messages" -> 1 [] k = "roomUsers" -> 2
                            [] OTHER -> NoSub]
    ELSE [k \in Kinds |-> NoSub]

\* The pages pg (a function from the signed-in user to the kind of page) have
\* run their set-up; S are the calls of selectFriend, U the user documents and
\* M the messages stored by earlier sessions.  The send controls of a private
\* page start enabled or disabled: D are the starts considered.
InitPages(pg, S, U, M, D) ==
    /\ users = U
    /\ messages = M
    /\ pendingAdds = {}
    /\ page = pg
    /\ selectedFriendId = [c \in DOMAIN pg |-> NoUser]
    /\ sendDisabled \in D
    /\ \A c \in DOMAIN pg : pg[c] = "public" => ~sendDisabled[c]
    /\ chatMessagesDisplay = [c \in DOMAIN pg |-> <<>>]
    /\ subs = [c \in DOMAIN pg |-> InitSubs(pg[c])]
    /\ unsubscribe = [c \in DOMAIN pg |-> InitHandles(pg[c])]
    /\ selpc = [f \in S |-> "idle"]
    /\ friendId = [f \in S |-> NoUser]
    /\ friendsListDiv = [c \in DOMAIN pg |-> <<>>]
    /\ usersListDiv = [c \in DOMAIN pg |-> <<>>]
    /\ fljobs = [c \in DOMAIN pg |-> {}]
    /\ touched = [c \in DOMAIN pg |-> {}]
    /\ unloaded = [c \in DOMAIN pg |-> FALSE]
    /\ lateCallbacks = [c \in DOMAIN pg |-> {}]
    /\ chatAlert = [c \in DOMAIN pg |-> "none"]
    /\ chatOps = 0
    /\ blocked_users = {}
    /\ signedIn = [c \in DOMAIN pg |-> TRUE]
    /\ logoutpc = [c \in DOMAIN pg |-> "idle"]
    /\ logoutAlert = [c \in DOMAIN pg |-> "none"]

\* No page of the chat views is open.
NoPages == InitPages(<<>>, {}, <<>>, <<>>, {<<>>})

Init ==
    /\ stage \in InitStages
    /\ InitClients(Users, OneCallEach(Users))
    /\ canMicAscent \in [Users -> BOOLEAN]
    /\ InitFriends({}, {}, {})
    /\ NoPages

\* The clients and the calls of the behaviour.
Clients == DOMAIN lastAlert
Procs == DOMAIN pc

\* ----------------------------------------------------------- store writes

\* Faulty variant: the write reaches no listener.
MutStoreSilent(doc) ==
    /\ stage' = doc
    /\ notify' = notify

\* A write to the document wakes every listener when it changes the document.
Store(doc) ==
    /\ stage' = doc
    /\ notify' = IF doc = stage THEN notify ELSE [c \in Clients |-> TRUE]

\* --------------------------------------------------------- handleMicAction

\* A click on an enabled mic button: handleMicAction(a) runs up to its getDoc.
Click(p, a) ==
    /\ ~btnDisabled[p[1]][a]
    /\ pc[p] = "idle"
    /\ pc' = [pc EXCEPT ![p] = "getDoc"]
    /\ action' = [action EXCEPT ![p] = a]
    /\ ops' = ops + 1
    /\ UNCHANGED <<stage, micStageData, lastAlert, isMuted, canMicAscent,
                   btnDisabled, micCircles, shownMics, notify, initWrite, asked>>

ClickRequest(p) == Click(p, "request")
ClickLeave(p) == Click(p, "leave")
ClickToggleMute(p) == Click(p, "toggleMute")

\* The call ends with an alert and no write.
Return(p, msg) ==
    /\ pc' = [pc EXCEPT ![p] = "idle"]
    /\ action' = [action EXCEPT ![p] = "none"]
    /\ micStageData' = [micStageData EXCEPT ![p] = <<>>]
    /\ lastAlert' = [lastAlert EXCEPT ![p[1]] = msg]

\* The call issues setDoc(micStageRef, { mics }, { merge: true }) and suspends.
IssueSetDoc(p, mics) ==
    /\ pc' = [pc EXCEPT ![p] = "setDoc"]
    /\ micStageData' = [micStageData EXCEPT ![p] = mics]
    /\ UNCHANGED <<action, lastAlert>>

\* Faulty variant: the permission is not looked at.
MutMayAscendAlways(c) == TRUE

\* Faulty variant: a client that has left the mic may not take one again.
MutMayAscendNotAfterLeave(c) == canMicAscent[c] /\ lastAlert[c] # "left"

\* currentUser.canMicAscent, as the handler reads it.
MayAscend(c) == canMicAscent[c]

\* What the handler does with the mics it read, up to its next suspension.
AfterGetDoc(p, mics) ==
    LET c == p[1]
        currentMicIndex == CurrentMicIndex(mics, c)
        emptyMicIndex == EmptyMicIndex(mics)
    IN  CASE action[p] = "request" ->
                IF currentMicIndex # NotFound THEN Return(p, "alreadyOnMic")
                ELSE IF ~MayAscend(c) THEN Return(p, "noPermission")
                ELSE IF emptyMicIndex # NotFound
                     THEN IssueSetDoc(p, TakeMic(mics, emptyMicIndex, c))
                     ELSE Return(p, "noEmptySpot")
          [] action[p] = "leave" ->
                IF currentMicIndex = NotFound THEN Return(p, "notOnMic")
                ELSE IssueSetDoc(p, ClearMic(mics, currentMicIndex))
          [] action[p] = "toggleMute" ->
                IF currentMicIndex = NotFound THEN Return(p, "mustBeOnMic")
                ELSE IssueSetDoc(p, ToggleMic(mics, currentMicIndex))

\* getDoc resolves with the document as stored at that moment.
GetDocReturns(p) ==
    /\ pc[p] = "getDoc"
    /\ AfterGetDoc(p, ReadMics(stage))
    /\ asked' = IF action[p] = "request" /\ pc'[p] = "setDoc"
                THEN asked \cup {p[1]} ELSE asked
    /\ UNCHANGED <<stage, isMuted, canMicAscent, btnDisabled, micCircles, shownMics, notify, initWrite, ops>>

\* Faulty variant: the write leaves alone every spot that is taken in the store.
MutSetDocLandsKeepsTaken(p) ==
    /\ pc[p] = "setDoc"
    /\ Store(IF ~stage.exists THEN StageDoc(micStageData[p])
             ELSE StageDoc([i \in 1..Len(stage.mics) |->
                     IF stage.mics[i].userId # NoUser THEN stage.mics[i]
                     ELSE micStageData[p][i]]))
    /\ pc' = [pc EXCEPT ![p] = "ack"]
    /\ UNCHANGED <<action, micStageData, lastAlert, isMuted, canMicAscent,
                   btnDisabled, micCircles, shownMics, initWrite, ops, asked>>

\* The store applies the call's setDoc: the whole mics array is replaced.
SetDocLands(p) ==
    /\ pc[p] = "setDoc"
    /\ Store(StageDoc(micStageData[p]))
    /\ pc' = [pc EXCEPT ![p] = "ack"]
    /\ UNCHANGED <<action, micStageData, lastAlert, isMuted, canMicAscent,
                   btnDisabled, micCircles, shownMics, initWrite, ops, asked>>

\* await setDoc resolves: the handler updates its local state and reports (the
\* label of the mute button follows isMuted and is not kept apart).
SetDocReturns(p) ==
    LET c == p[1]
        i == CurrentMicIndex(micStageData[p], c)
        newMuteStatus == IF action[p] = "toggleMute"
                         THEN At(micStageData[p], i).isMuted ELSE FALSE
    IN  /\ pc[p] = "ack"
        /\ isMuted' = [isMuted EXCEPT ![c] = newMuteStatus]
        /\ Return(p, CASE action[p] = "request" -> "joined"
                       [] action[p] = "leave" -> "left"
                       [] action[p] = "toggleMute" ->
                            IF newMuteStatus THEN "muted" ELSE "unmuted")
        /\ UNCHANGED <<stage, canMicAscent, btnDisabled, micCircles, shownMics, notify, initWrite, ops, asked>>

\* Faulty variant: the catch block also resets the local mute flag.
MutStoreCallFailsResetsMute(p) ==
    /\ pc[p] \in {"getDoc", "setDoc"}
    /\ Return(p, "failed")
    /\ isMuted' = [isMuted EXCEPT ![p[1]] = FALSE]
    /\ UNCHANGED <<stage, canMicAscent, btnDisabled, micCircles, shownMics, notify, initWrite, ops, asked>>

\* getDoc or setDoc rejects: the catch block reports the failure.
StoreCallFails(p) ==
    /\ pc[p] \in {"getDoc", "setDoc"}
    /\ Return(p, "failed")
    /\ UNCHANGED <<stage, isMuted, canMicAscent, btnDisabled, micCircles, shownMics, notify, initWrite, ops, asked>>

\* ------------------------------------------------------- mic stage listener

\* The array the onSnapshot callback passes to renderMicCircles.
SnapshotMics(doc) == IF doc.exists THEN PadMics(doc.mics) ELSE EmptyMics

\* The onSnapshot callback of client c runs on the document as stored: it
\* renders the circles and the buttons and, when the document is absent, issues
\* the initialising setDoc.  (At most one spot is the viewer's own, so one draw
\* of Math.random() decides the speaking class.)
Snapshot(c) ==
    /\ notify[c]
    /\ notify' = [notify EXCEPT ![c] = FALSE]
    /\ \E speak \in BOOLEAN :
            micCircles' = [micCircles EXCEPT ![c] =
                RenderMicCircles(SnapshotMics(stage), c, isMuted[c], speak)]
    /\ shownMics' = [shownMics EXCEPT ![c] = SnapshotMics(stage)]
    /\ btnDisabled' = [btnDisabled EXCEPT ![c] =
            RenderButtons(SnapshotMics(stage), c, canMicAscent[c])]
    /\ initWrite' = IF stage.exists THEN initWrite
                    ELSE [initWrite EXCEPT ![c] = TRUE]
    /\ UNCHANGED <<stage, pc, action, micStageData, lastAlert, isMuted,
                   canMicAscent, ops, asked>>

\* The store applies the listener's setDoc(micStageRef, { mics: [null x 4] }).
InitWriteLands(c) ==
    /\ initWrite[c]
    /\ initWrite' = [initWrite EXCEPT ![c] = FALSE]
    /\ Store(StageDoc(EmptyMics))
    /\ UNCHANGED <<pc, action, micStageData, lastAlert, isMuted, canMicAscent,
                   btnDisabled, micCircles, shownMics, ops, asked>>

\* ------------------------------------------------------------------- Next

\* The mic steps; none touches the friend collections.
Next ==
    \/ \E p \in Procs : ops < MaxOps /\ ClickRequest(p) /\ UNCHANGED <<friendVars, pageVars, accountVars>>
    \/ \E p \in Procs : ops < MaxOps /\ ClickLeave(p) /\ UNCHANGED <<friendVars, pageVars, accountVars>>
    \/ \E p \in Procs : ops < MaxOps /\ ClickToggleMute(p) /\ UNCHANGED <<friendVars, pageVars, accountVars>>
    \/ \E p \in Procs : GetDocReturns(p) /\ UNCHANGED <<friendVars, pageVars, accountVars>>
    \/ \E p \in Procs : SetDocLands(p) /\ UNCHANGED <<friendVars, pageVars, accountVars>>
    \/ \E p \in Procs : SetDocReturns(p) /\ UNCHANGED <<friendVars, pageVars, accountVars>>
    \/ \E p \in Procs : StoreCallFails(p) /\ UNCHANGED <<friendVars, pageVars, accountVars>>
    \/ \E c \in Clients : Snapshot(c) /\ UNCHANGED <<friendVars, pageVars, accountVars>>
    \/ \E c \in Clients : InitWriteLands(c) /\ UNCHANGED <<friendVars, pageVars, accountVars>>

Spec == Init /\ [][Next]_vars

\* Every change notification is delivered: a callback that is due runs.
Fairness == \A c \in Users : WF_vars(Snapshot(c) /\ UNCHANGED <<friendVars, pageVars, accountVars>>)

SpecLive == Init /\ [][Next]_vars /\ Fairness

\* ------------------------------------------- behaviours made of requests only

Requesters == 1..NumRequesters

\* The stage exists and is empty, every client may take a mic, and the pages
\* act before their listeners have rendered anything.
InitRequests ==
    /\ stage = StageDoc(EmptyMics)
    /\ InitClients(Requesters, OneCallEach(Requesters))
    /\ canMicAscent = [c \in Requesters |-> TRUE]
    /\ InitFriends({}, {}, {})
    /\ NoPages

NextRequests ==
    \/ \E p \in Procs : ops < NumRequesters /\ ClickRequest(p) /\ UNCHANGED <<friendVars, pageVars, accountVars>>
    \/ \E p \in Procs : GetDocReturns(p) /\ UNCHANGED <<friendVars, pageVars, accountVars>>
    \/ \E p \in Procs : SetDocLands(p) /\ UNCHANGED <<friendVars, pageVars, accountVars>>
    \/ \E p \in Procs : SetDocReturns(p) /\ UNCHANGED <<friendVars, pageVars, accountVars>>
    \/ \E p \in Procs : StoreCallFails(p) /\ UNCHANGED <<friendVars, pageVars, accountVars>>

SpecRequests == InitRequests /\ [][NextRequests]_vars

\* ------------------------------------ behaviours of one page clicking quickly

\* The click listeners start a call of handleMicAction per click and do not
\* wait for the one before: up to two calls of the page are suspended at once.
\* (The order in which the store applies the writes of one page is left open.)
TwoCallsEach(U) == U \X {1, 2}

InitBackToBack ==
    /\ stage \in InitStages
    /\ InitClients({1}, TwoCallsEach({1}))
    /\ canMicAscent = [c \in {1} |-> TRUE]
    /\ InitFriends({}, {}, {})
    /\ NoPages

SpecBackToBack == InitBackToBack /\ [][Next]_vars

\* -------------------------------------------------------- sendFriendRequest

FriendUsers == 1..NumFriendUsers    \* the users that send friend requests
UserDocs == FriendUsers             \* the ids with a document users/{id}
Pages == {"private", "public"}      \* the two pages that define sendFriendRequest

\* The users and the calls of the behaviour.
FUsers == DOMAIN friendAlert
FCalls == DOMAIN fpc

\* query(friendsRef, where('userId', '==', target))
FriendDocs(u, target) == {e \in friends : e = <<u, target>>}

\* query(sentRequestsRef, where('receiverId', '==', target))
SentDocs(u, target) == {r \in sent_friend_requests : r.owner = u /\ r.to = target}

\* query(receivedRequestsRef, where('senderId', '==', target))
ReceivedDocs(u, target) ==
    {r \in received_friend_requests : r.to = u /\ r.from = target}

\* The call ends with an alert.
FReturn(f, msg) ==
    /\ fpc' = [fpc EXCEPT ![f] = "idle"]
    /\ friendAlert' = [friendAlert EXCEPT ![f[1]] = msg]

\* The call moves on to its next await.
FGoto(f, at) ==
    /\ fpc' = [fpc EXCEPT ![f] = at]
    /\ UNCHANGED friendAlert

\* const newRequestRef = doc(collection(...)) draws a new document id, and the
\* call issues the setDoc of the receiver's record.
IssueSetReceived(f) ==
    /\ freqId' = [freqId EXCEPT ![f] = nextReqId]
    /\ nextReqId' = nextReqId + 1
    /\ FGoto(f, "setReceived")

\* sendFriendRequest(target) is called on page pg and runs up to its first
\* query; a request to oneself is refused at once.
SendFriendRequest(f, target, pg) ==
    /\ fpc[f] = "idle"
    /\ fops' = fops + 1
    /\ ftarget' = [ftarget EXCEPT ![f] = target]
    /\ fpage' = [fpage EXCEPT ![f] = pg]
    /\ IF target = f[1] THEN FReturn(f, "self") ELSE FGoto(f, "getFriends")
    /\ UNCHANGED <<friends, received_friend_requests, sent_friend_requests,
                   nextReqId, freqId>>

\* The friends query returns: already friends, or on to the sent requests.
GetFriendsReturns(f) ==
    /\ fpc[f] = "getFriends"
    /\ IF FriendDocs(f[1], ftarget[f]) # {}
       THEN FReturn(f, "alreadyFriends")
       ELSE FGoto(f, "getSent")
    /\ UNCHANGED <<friends, received_friend_requests, sent_friend_requests,
                   nextReqId, ftarget, fpage, freqId, fops>>

\* The sent-requests query returns: already sent, or on to the received ones.
GetSentReturns(f) ==
    /\ fpc[f] = "getSent"
    /\ IF SentDocs(f[1], ftarget[f]) # {}
       THEN FReturn(f, "alreadySent")
       ELSE FGoto(f, "getReceived")
    /\ UNCHANGED <<friends, received_friend_requests, sent_friend_requests,
                   nextReqId, ftarget, fpage, freqId, fops>>

\* The received-requests query returns.  With a request from the target: the
\* private page reads targetUserData before its declaration has run, which
\* throws into the catch block; the public page asks the user.  With none: the
\* private page goes on to read the target's user document, the public page to
\* write the request.
GetReceivedReturns(f) ==
    /\ fpc[f] = "getReceived"
    /\ IF ReceivedDocs(f[1], ftarget[f]) # {}
       THEN /\ IF fpage[f] = "private" THEN FReturn(f, "failed")
                                       ELSE FGoto(f, "confirm")
            /\ UNCHANGED <<nextReqId, freqId>>
       ELSE IF fpage[f] = "private"
            THEN FGoto(f, "getUser") /\ UNCHANGED <<nextReqId, freqId>>
            ELSE IssueSetReceived(f)
    /\ UNCHANGED <<friends, received_friend_requests, sent_friend_requests,
                   ftarget, fpage, fops>>

\* The user answers the prompt of the public page.  On yes the page calls
\* acceptFriendRequest, which it neither defines nor imports: the call throws
\* into the catch block.  On no the call returns.
ConfirmAnswers(f, yes) ==
    /\ fpc[f] = "confirm"
    /\ IF yes THEN FReturn(f, "failed") ELSE FGoto(f, "idle")
    /\ UNCHANGED <<friends, received_friend_requests, sent_friend_requests,
                   nextReqId, ftarget, fpage, freqId, fops>>

\* The private page's getDoc of users/{target} returns.
GetUserReturns(f) ==
    /\ fpc[f] = "getUser"
    /\ IF ftarget[f] \in UserDocs
       THEN IssueSetReceived(f)
       ELSE FReturn(f, "userNotFound") /\ UNCHANGED <<nextReqId, freqId>>
    /\ UNCHANGED <<friends, received_friend_requests, sent_friend_requests,
                   ftarget, fpage, fops>>

\* The store applies setDoc(newRequestRef, {requestId, senderId, ...}) and the
\* call goes on to the setDoc of the sender's record.
SetReceivedLands(f) ==
    /\ fpc[f] = "setReceived"
    /\ received_friend_requests' = received_friend_requests \cup
            {[id |-> freqId[f], to |-> ftarget[f], from |-> f[1]]}
    /\ FGoto(f, "setSent")
    /\ UNCHANGED <<friends, sent_friend_requests, nextReqId, ftarget, fpage,
                   freqId, fops>>

\* Faulty variant: the sender's record is stored under an id of its own.
MutSetSentLandsOwnId(f) ==
    /\ fpc[f] = "setSent"
    /\ sent_friend_requests' = sent_friend_requests \cup
            {[id |-> nextReqId, owner |-> f[1], to |-> ftarget[f]]}
    /\ FReturn(f, "sent")
    /\ UNCHANGED <<friends, received_friend_requests, nextReqId, ftarget, fpage,
                   freqId, fops>>

\* The store applies setDoc(doc(..., 'sent_friend_requests', newRequestRef.id),
\* {requestId, receiverId, ...}) and the call reports success.
SetSentLands(f) ==
    /\ fpc[f] = "setSent"
    /\ sent_friend_requests' = sent_friend_requests \cup
            {[id |-> freqId[f], owner |-> f[1], to |-> ftarget[f]]}
    /\ FReturn(f, "sent")
    /\ UNCHANGED <<friends, received_friend_requests, nextReqId, ftarget, fpage,
                   freqId, fops>>

\* A query or a write of the call rejects: the catch block reports the failure.
FriendCallFails(f) ==
    /\ fpc[f] \in {"getFriends", "getSent", "getReceived", "getUser",
                   "setReceived", "setSent"}
    /\ FReturn(f, "failed")
    /\ UNCHANGED <<friends, received_friend_requests, sent_friend_requests,
                   nextReqId, ftarget, fpage, freqId, fops>>

\* The users are friends already or not; no request is pending; every page is
\* idle.  The mic stage is left alone.
InitFriendRequests ==
    /\ stage = StageDoc(EmptyMics)
    /\ InitClients({}, {})
    /\ canMicAscent = <<>>
    /\ \E E \in {{}, {<<1, 2>>, <<2, 1>>}} :
            InitFriends(E, FriendUsers, TwoCallsEach(FriendUsers))
    /\ NoPages

\* The steps of sendFriendRequest; none touches the mic stage.
NextFriendRequests ==
    \/ \E f \in FCalls, target \in FUsers, pg \in Pages :
            fops < MaxFriendOps /\ SendFriendRequest(f, target, pg) /\ UNCHANGED <<micVars, pageVars, accountVars>>
    \/ \E f \in FCalls : GetFriendsReturns(f) /\ UNCHANGED <<micVars, pageVars, accountVars>>
    \/ \E f \in FCalls : GetSentReturns(f) /\ UNCHANGED <<micVars, pageVars, accountVars>>
    \/ \E f \in FCalls : GetReceivedReturns(f) /\ UNCHANGED <<micVars, pageVars, accountVars>>
    \/ \E f \in FCalls, yes \in BOOLEAN : ConfirmAnswers(f, yes) /\ UNCHANGED <<micVars, pageVars, accountVars>>
    \/ \E f \in FCalls : GetUserReturns(f) /\ UNCHANGED <<micVars, pageVars, accountVars>>
    \/ \E f \in FCalls : SetReceivedLands(f) /\ UNCHANGED <<micVars, pageVars, accountVars>>
    \/ \E f \in FCalls : SetSentLands(f) /\ UNCHANGED <<micVars, pageVars, accountVars>>
    \/ \E f \in FCalls : FriendCallFails(f) /\ UNCHANGED <<micVars, pageVars, accountVars>>

SpecFriendRequests == InitFriendRequests /\ [][NextFriendRequests]_vars

\* ------------------------------------------------------- strings and lists

\* The characters of the ids and names of the model, in UTF-16 code order.
Chars == <<"0", "1", "2", "3", "4", "5", "6", "7", "8", "9", "_", "a", "b", "c">>
Rank(ch) == CHOOSE i \in 1..Len(Chars) : Chars[i] = ch

\* s < t as strings: the first differing character decides, a prefix is less.
RECURSIVE StrLess(_, _)
StrLess(s, t) ==
    IF t = <<>> THEN FALSE
    ELSE IF s = <<>> THEN TRUE
    ELSE IF Head(s) # Head(t) THEN Rank(Head(s)) < Rank(Head(t))
    ELSE StrLess(Tail(s), Tail(t))

\* a.localeCompare(b) on names of lower-case letters: -1, 0 or 1.
LocaleCompare(a, b) == IF StrLess(a, b) THEN -1 ELSE IF StrLess(b, a) THEN 1 ELSE 0

\* String(n) of a user id.
RECURSIVE StringOf(_)
StringOf(n) ==
    IF n < 10 THEN <<Chars[n + 1]>>
    ELSE StringOf(n \div 10) \o <<Chars[(n % 10) + 1]>>

\* Faulty variant: offline users first.
MutCompareUsersOfflineFirst(a, b) ==
    IF a.isOnline /\ ~b.isOnline THEN 1
    ELSE IF ~a.isOnline /\ b.isOnline THEN -1
    ELSE LocaleCompare(a.username, b.username)

\* The comparator of renderFriendsList and renderUsersList.
CompareUsers(a, b) ==
    IF a.isOnline /\ ~b.isOnline THEN -1
    ELSE IF ~a.isOnline /\ b.isOnline THEN 1
    ELSE LocaleCompare(a.username, b.username)

\* Array.prototype.sort with that comparator (the sort is stable): a put into
\* the sorted list l after every element that does not come after it.
RECURSIVE InsertUser(_, _)
InsertUser(l, a) ==
    IF l = <<>> THEN <<a>>
    ELSE IF CompareUsers(Head(l), a) <= 0 THEN <<Head(l)>> \o InsertUser(Tail(l), a)
    ELSE <<a>> \o l

RECURSIVE SortUsers(_)
SortUsers(l) ==
    IF l = <<>> THEN <<>>
    ELSE InsertUser(SortUsers(SubSeq(l, 1, Len(l) - 1)), l[Len(l)])

\* The elements of a set of numbers in ascending order (document ids order the
\* documents of a snapshot).
RECURSIVE Ascending(_)
Ascending(S) == IF S = {} THEN <<>> ELSE <<Min(S)>> \o Ascending(S \ {Min(S)})

\* friends.push({userId, username, avatar, isOnline}) from the profile document.
FriendEntry(id) ==
    [userId |-> id, username |-> users[id].username, isOnline |-> users[id].isOnline]

\* renderFriendsList(friends): the list is cleared, sorted and drawn in full.
RenderFriendsList(l) == SortUsers(l)

\* renderUsersList(users): sorted, then drawn without the current user.
RenderUsersList(l, c) == SelectSeq(SortUsers(l), LAMBDA u : u.userId # c)

\* ------------------------------------------------ pages and subscriptions

\* The open pages and the calls of selectFriend.
PageUsers == DOMAIN page
SelCalls == DOMAIN selpc

\* The subscriptions of page c after the handle of kind k was invoked (a null
\* handle is not invoked; invoking a handle twice changes nothing).
Unsubscribed(c, k) ==
    IF unsubscribe[c][k] = NoSub THEN subs[c]
    ELSE [subs[c] EXCEPT ![unsubscribe[c][k]].live = FALSE]

\* The lines shared by removeFriend, blockUser and the friends callback when
\* the chat partner goes away: the selection and the view are cleared, the
\* send controls disabled and the message subscription ended (the caller ends
\* the subscription).
ClearChat(c) ==
    /\ selectedFriendId' = [selectedFriendId EXCEPT ![c] = NoUser]
    /\ chatMessagesDisplay' = [chatMessagesDisplay EXCEPT ![c] = <<>>]
    /\ sendDisabled' = [sendDisabled EXCEPT ![c] = TRUE]

\* A callback of kind k runs on page c: noted when the page had been torn down.
NoteCallback(c, k) ==
    lateCallbacks' = IF unloaded[c] THEN [lateCallbacks EXCEPT ![c] = @ \cup {k}]
                     ELSE lateCallbacks

\* setDoc on the friend document users/owner/friends/friend: owner's listener
\* is told of a modification when the document was there already.
Touch(owner, friend) ==
    touched' = IF owner \in DOMAIN touched /\ <<owner, friend>> \in friends
               THEN [touched EXCEPT ![owner] = @ \cup {friend}]
               ELSE touched

\* ------------------------------- acceptFriendRequest, rejectFriendRequest

\* The variables of the pages that no friend write touches.
pageRest == <<users, messages, pendingAdds, page, selpc, friendId, friendsListDiv,
              usersListDiv, fljobs, unloaded, lateCallbacks, chatAlert, chatOps>>
chatView == <<selectedFriendId, sendDisabled, chatMessagesDisplay, subs, unsubscribe>>

\* The requests listed on the page of user u.
Listed(u) == {r \in received_friend_requests : r.to = u}

\* A click on "accept" of the listed request r: acceptFriendRequest(requestId,
\* senderId, ...) runs up to its first setDoc.
AcceptFriendRequest(f, r) ==
    /\ fpc[f] = "idle"
    /\ r \in Listed(f[1])
    /\ fops' = fops + 1
    /\ ftarget' = [ftarget EXCEPT ![f] = r.from]
    /\ freqId' = [freqId EXCEPT ![f] = r.id]
    /\ fpage' = [fpage EXCEPT ![f] = "private"]
    /\ FGoto(f, "acceptSetMine")
    /\ UNCHANGED <<friends, received_friend_requests, sent_friend_requests, nextReqId>>
    /\ UNCHANGED <<pageRest, chatView, touched>>

\* The store applies setDoc(users/me/friends/sender).
AcceptSetMineLands(f) ==
    /\ fpc[f] = "acceptSetMine"
    /\ friends' = friends \cup {<<f[1], ftarget[f]>>}
    /\ Touch(f[1], ftarget[f])
    /\ FGoto(f, "acceptSetTheirs")
    /\ UNCHANGED <<received_friend_requests, sent_friend_requests, nextReqId,
                   ftarget, fpage, freqId, fops>>
    /\ UNCHANGED <<pageRest, chatView>>

\* Faulty variant: the second write repeats the first.
MutAcceptSetTheirsLandsMine(f) ==
    /\ fpc[f] = "acceptSetTheirs"
    /\ friends' = friends \cup {<<f[1], ftarget[f]>>}
    /\ Touch(f[1], ftarget[f])
    /\ FGoto(f, "acceptDelete")
    /\ UNCHANGED <<received_friend_requests, sent_friend_requests, nextReqId,
                   ftarget, fpage, freqId, fops>>
    /\ UNCHANGED <<pageRest, chatView>>

\* The store applies setDoc(users/sender/friends/me).
AcceptSetTheirsLands(f) ==
    /\ fpc[f] = "acceptSetTheirs"
    /\ friends' = friends \cup {<<ftarget[f], f[1]>>}
    /\ Touch(ftarget[f], f[1])
    /\ FGoto(f, "acceptDelete")
    /\ UNCHANGED <<received_friend_requests, sent_friend_requests, nextReqId,
                   ftarget, fpage, freqId, fops>>
    /\ UNCHANGED <<pageRest, chatView>>

\* deleteDoc(users/me/received_friend_requests/requestId) as the store applies it.
DeleteReceived(u, id) ==
    received_friend_requests' =
        {r \in received_friend_requests : ~(r.to = u /\ r.id = id)}

\* The store applies the deleteDoc of the request and the call reports the
\* acceptance.  The sender's record in sent_friend_requests is left in place.
AcceptDeleteLands(f) ==
    /\ fpc[f] = "acceptDelete"
    /\ DeleteReceived(f[1], freqId[f])
    /\ FReturn(f, "accepted")
    /\ UNCHANGED <<friends, sent_friend_requests, nextReqId, ftarget, fpage,
                   freqId, fops>>
    /\ UNCHANGED <<pageRest, chatView, touched>>

\* One of the three writes rejects: the catch block reports the failure.
AcceptFails(f) ==
    /\ fpc[f] \in {"acceptSetMine", "acceptSetTheirs", "acceptDelete"}
    /\ FReturn(f, "acceptFailed")
    /\ UNCHANGED <<friends, received_friend_requests, sent_friend_requests,
                   nextReqId, ftarget, fpage, freqId, fops>>
    /\ UNCHANGED <<pageRest, chatView, touched>>

\* A click on "reject" of the listed request r: rejectFriendRequest(requestId)
\* runs up to its deleteDoc.
RejectFriendRequest(f, r) ==
    /\ fpc[f] = "idle"
    /\ r \in Listed(f[1])
    /\ fops' = fops + 1
    /\ ftarget' = [ftarget EXCEPT ![f] = NoUser]
    /\ freqId' = [freqId EXCEPT ![f] = r.id]
    /\ fpage' = [fpage EXCEPT ![f] = "private"]
    /\ FGoto(f, "rejectDelete")
    /\ UNCHANGED <<friends, received_friend_requests, sent_friend_requests, nextReqId>>
    /\ UNCHANGED <<pageRest, chatView, touched>>

\* Faulty variant: the rejection is reported and nothing is deleted.
MutRejectDeleteLandsKeeps(f) ==
    /\ fpc[f] = "rejectDelete"
    /\ FReturn(f, "rejected")
    /\ UNCHANGED <<friends, received_friend_requests, sent_friend_requests,
                   nextReqId, ftarget, fpage, freqId, fops>>
    /\ UNCHANGED <<pageRest, chatView, touched>>

\* The store applies the deleteDoc and the call reports the rejection.
RejectDeleteLands(f) ==
    /\ fpc[f] = "rejectDelete"
    /\ DeleteReceived(f[1], freqId[f])
    /\ FReturn(f, "rejected")
    /\ UNCHANGED <<friends, sent_friend_requests, nextReqId, ftarget, fpage,
                   freqId, fops>>
    /\ UNCHANGED <<pageRest, chatView, touched>>

\* The deleteDoc rejects: the catch block reports the failure.
RejectFails(f) ==
    /\ fpc[f] = "rejectDelete"
    /\ FReturn(f, "rejectFailed")
    /\ UNCHANGED <<friends, received_friend_requests, sent_friend_requests,
                   nextReqId, ftarget, fpage, freqId, fops>>
    /\ UNCHANGED <<pageRest, chatView, touched>>

\* ------------------------------------------------------------ removeFriend

\* A click on "remove" of the entry of friend x in the friends list shown:
\* removeFriend(x, ...) asks for confirmation.
RemoveFriend(f, x) ==
    /\ fpc[f] = "idle"
    /\ \E i \in DOMAIN friendsListDiv[f[1]] : friendsListDiv[f[1]][i].userId = x
    /\ fops' = fops + 1
    /\ ftarget' = [ftarget EXCEPT ![f] = x]
    /\ fpage' = [fpage EXCEPT ![f] = "private"]
    /\ FGoto(f, "removeConfirm")
    /\ UNCHANGED <<friends, received_friend_requests, sent_friend_requests,
                   nextReqId, freqId>>
    /\ UNCHANGED <<pageRest, chatView, touched>>

\* The user answers: on no the call returns, on yes it issues its first deleteDoc.
RemoveConfirmAnswers(f, yes) ==
    /\ fpc[f] = "removeConfirm"
    /\ FGoto(f, IF yes THEN "removeDelMine" ELSE "idle")
    /\ UNCHANGED <<friends, received_friend_requests, sent_friend_requests,
                   nextReqId, ftarget, fpage, freqId, fops>>
    /\ UNCHANGED <<pageRest, chatView, touched>>

\* The store applies deleteDoc(users/me/friends/x).
RemoveDelMineLands(f) ==
    /\ fpc[f] = "removeDelMine"
    /\ friends' = friends \ {<<f[1], ftarget[f]>>}
    /\ FGoto(f, "removeDelTheirs")
    /\ UNCHANGED <<received_friend_requests, sent_friend_requests, nextReqId,
                   ftarget, fpage, freqId, fops>>
    /\ UNCHANGED <<pageRest, chatView, touched>>

\* The store applies deleteDoc(users/x/friends/me); the call reports the removal
\* and, when x was the chat partner, clears the chat.
RemoveDelTheirsLands(f) ==
    /\ fpc[f] = "removeDelTheirs"
    /\ friends' = friends \ {<<ftarget[f], f[1]>>}
    /\ FReturn(f, "removed")
    /\ IF f[1] \in PageUsers /\ selectedFriendId[f[1]] = ftarget[f]
       THEN /\ ClearChat(f[1])
            /\ subs' = [subs EXCEPT ![f[1]] = Unsubscribed(f[1], "messages")]
       ELSE UNCHANGED <<selectedFriendId, chatMessagesDisplay, sendDisabled, subs>>
    /\ UNCHANGED <<received_friend_requests, sent_friend_requests, nextReqId,
                   ftarget, fpage, freqId, fops>>
    /\ UNCHANGED <<pageRest, unsubscribe, touched>>

\* One of the two deletes rejects: the catch block reports the failure.
RemoveFails(f) ==
    /\ fpc[f] \in {"removeDelMine", "removeDelTheirs"}
    /\ FReturn(f, "removeFailed")
    /\ UNCHANGED <<friends, received_friend_requests, sent_friend_requests,
                   nextReqId, ftarget, fpage, freqId, fops>>
    /\ UNCHANGED <<pageRest, chatView, touched>>

\* --------------------------------------------------------------- blockUser

\* A click on "block" of the entry of friend x in the friends list shown:
\* blockUser(x, ...) asks for confirmation.
BlockUser(f, x) ==
    /\ fpc[f] = "idle"
    /\ \E i \in DOMAIN friendsListDiv[f[1]] : friendsListDiv[f[1]][i].userId = x
    /\ fops' = fops + 1
    /\ ftarget' = [ftarget EXCEPT ![f] = x]
    /\ fpage' = [fpage EXCEPT ![f] = "private"]
    /\ FGoto(f, "blockConfirm")
    /\ UNCHANGED <<friends, received_friend_requests, sent_friend_requests,
                   nextReqId, freqId>>
    /\ UNCHANGED <<pageRest, chatView, touched, accountVars>>

\* The user answers: on no the call returns, on yes it issues the setDoc of
\* the block record.
BlockConfirmAnswers(f, yes) ==
    /\ fpc[f] = "blockConfirm"
    /\ FGoto(f, IF yes THEN "blockSet" ELSE "idle")
    /\ UNCHANGED <<friends, received_friend_requests, sent_friend_requests,
                   nextReqId, ftarget, fpage, freqId, fops>>
    /\ UNCHANGED <<pageRest, chatView, touched, accountVars>>

\* The store applies setDoc(users/me/blocked_users/x).
BlockSetLands(f) ==
    /\ fpc[f] = "blockSet"
    /\ blocked_users' = blocked_users \cup {<<f[1], ftarget[f]>>}
    /\ FGoto(f, "blockDelMine")
    /\ UNCHANGED <<friends, received_friend_requests, sent_friend_requests,
                   nextReqId, ftarget, fpage, freqId, fops>>
    /\ UNCHANGED <<pageRest, chatView, touched, signedIn, logoutpc, logoutAlert>>

\* The setDoc rejects: the catch block reports the failure.
BlockFails(f) ==
    /\ fpc[f] = "blockSet"
    /\ FReturn(f, "blockFailed")
    /\ UNCHANGED <<friends, received_friend_requests, sent_friend_requests,
                   nextReqId, ftarget, fpage, freqId, fops>>
    /\ UNCHANGED <<pageRest, chatView, touched, accountVars>>

\* deleteDoc(users/me/friends/x) is applied (ok) or rejects; the rejection is
\* swallowed by the .catch on the call, and the handler goes on either way.
BlockDelMineReturns(f, ok) ==
    /\ fpc[f] = "blockDelMine"
    /\ friends' = IF ok THEN friends \ {<<f[1], ftarget[f]>>} ELSE friends
    /\ FGoto(f, "blockDelTheirs")
    /\ UNCHANGED <<received_friend_requests, sent_friend_requests, nextReqId,
                   ftarget, fpage, freqId, fops>>
    /\ UNCHANGED <<pageRest, chatView, touched, accountVars>>

\* deleteDoc(users/x/friends/me) is applied (ok) or rejects, swallowed likewise;
\* the call reports the block and, when x was the chat partner, clears the chat.
BlockDelTheirsReturns(f, ok) ==
    /\ fpc[f] = "blockDelTheirs"
    /\ friends' = IF ok THEN friends \ {<<ftarget[f], f[1]>>} ELSE friends
    /\ FReturn(f, "blocked")
    /\ IF f[1] \in PageUsers /\ selectedFriendId[f[1]] = ftarget[f]
       THEN /\ ClearChat(f[1])
            /\ subs' = [subs EXCEPT ![f[1]] = Unsubscribed(f[1], "messages")]
       ELSE UNCHANGED <<selectedFriendId, chatMessagesDisplay, sendDisabled, subs>>
    /\ UNCHANGED <<received_friend_requests, sent_friend_requests, nextReqId,
                   ftarget, fpage, freqId, fops>>
    /\ UNCHANGED <<pageRest, unsubscribe, touched, accountVars>>

\* ----------------------------------------------------- the friends listener

\* The friend documents of user c.
FriendsOf(c) == {x \in DOMAIN friendAlert \cup DOMAIN users : <<c, x>> \in friends}

\* The frame of the friends listener.
listenerRest == <<users, messages, pendingAdds, page, unsubscribe, selpc, friendId,
                  usersListDiv, unloaded, chatAlert, chatOps>>

\* The onSnapshot callback of the friends collection runs on page c.  The
\* snapshot reports the changes since the one before (removals first, then
\* additions, then modifications).  The callback handles the removals, then
\* suspends at the getDoc of the first added or modified friend; with none it
\* draws the list it has built, which is empty.
FriendsSnapshot(c, i) ==
    LET cur == FriendsOf(c)
        seen == subs[c][i].seen
        removed == seen \ cur
        added == cur \ seen
        modified == touched[c] \cap cur \cap seen
        todo == Ascending(added) \o Ascending(modified)
        clear == selectedFriendId[c] \in removed
    IN  /\ i \in DOMAIN subs[c]
        /\ subs[c][i].kind = "friends" /\ subs[c][i].live
        /\ removed \cup added \cup modified # {}
        /\ subs' = [subs EXCEPT ![c] =
                [(IF clear THEN Unsubscribed(c, "messages") ELSE subs[c])
                    EXCEPT ![i].seen = cur]]
        /\ touched' = [touched EXCEPT ![c] = {}]
        /\ IF clear THEN ClearChat(c)
           ELSE UNCHANGED <<selectedFriendId, chatMessagesDisplay, sendDisabled>>
        /\ IF todo = <<>>
           THEN /\ friendsListDiv' = [friendsListDiv EXCEPT ![c] = RenderFriendsList(<<>>)]
                /\ UNCHANGED fljobs
           ELSE /\ fljobs' = [fljobs EXCEPT ![c] = @ \cup {[todo |-> todo, friends |-> <<>>]}]
                /\ UNCHANGED friendsListDiv
        /\ NoteCallback(c, "friends")
        /\ UNCHANGED listenerRest

\* The getDoc of a friend's profile resolves in a suspended run of the
\* callback: the profile, when it exists, is pushed; the run goes on to the
\* next change or, after the last, draws the list it has built.
FriendProfileReturns(c, job) ==
    LET id == Head(job.todo)
        built == IF id \in DOMAIN users THEN Append(job.friends, FriendEntry(id))
                 ELSE job.friends
    IN  /\ job \in fljobs[c]
        /\ ~unloaded[c]
        /\ IF Tail(job.todo) = <<>>
           THEN /\ friendsListDiv' = [friendsListDiv EXCEPT ![c] = RenderFriendsList(built)]
                /\ fljobs' = [fljobs EXCEPT ![c] = @ \ {job}]
           ELSE /\ fljobs' = [fljobs EXCEPT ![c] =
                        (@ \ {job}) \cup {[todo |-> Tail(job.todo), friends |-> built]}]
                /\ UNCHANGED friendsListDiv
        /\ UNCHANGED <<listenerRest, lateCallbacks, touched, subs, selectedFriendId,
                       chatMessagesDisplay, sendDisabled>>

\* The getDoc rejects: the run of the callback ends and draws nothing.
FriendProfileFails(c, job) ==
    /\ job \in fljobs[c]
    /\ ~unloaded[c]
    /\ fljobs' = [fljobs EXCEPT ![c] = @ \ {job}]
    /\ UNCHANGED <<listenerRest, lateCallbacks, touched, subs, selectedFriendId,
                   chatMessagesDisplay, sendDisabled, friendsListDiv>>

\* ------------------------------------ behaviours of all friend operations

\* The user documents of the behaviours that do not vary them.
Names == <<<<"b">>, <<"a", "b">>, <<"a">>>>
UserData(U) ==
    [u \in U |-> [username |-> Names[((u - 1) % Len(Names)) + 1],
                  isOnline |-> u % 2 = 1]]

\* Every user has the private page open (and sends requests from it or from
\* the public page, which keeps no state of its own between the steps of a
\* call); the users are friends already or not.
InitFriendOps ==
    /\ stage = StageDoc(EmptyMics)
    /\ InitClients({}, {})
    /\ canMicAscent = <<>>
    /\ \E E \in {{}, {<<1, 2>>, <<2, 1>>}} :
            InitFriends(E, FriendUsers, TwoCallsEach(FriendUsers))
    /\ InitPages([u \in FriendUsers |-> "private"], {}, UserData(FriendUsers), <<>>,
                 {[u \in FriendUsers |-> TRUE]})

\* The steps of the friend operations and of the friends listener.
NextFriendOps ==
    \/ NextFriendRequests
    \/ \E f \in FCalls, r \in received_friend_requests :
            fops < MaxFriendOps /\ AcceptFriendRequest(f, r) /\ UNCHANGED <<micVars, accountVars>>
    \/ \E f \in FCalls : AcceptSetMineLands(f) /\ UNCHANGED <<micVars, accountVars>>
    \/ \E f \in FCalls : AcceptSetTheirsLands(f) /\ UNCHANGED <<micVars, accountVars>>
    \/ \E f \in FCalls : AcceptDeleteLands(f) /\ UNCHANGED <<micVars, accountVars>>
    \/ \E f \in FCalls : AcceptFails(f) /\ UNCHANGED <<micVars, accountVars>>
    \/ \E f \in FCalls, r \in received_friend_requests :
            fops < MaxFriendOps /\ RejectFriendRequest(f, r) /\ UNCHANGED <<micVars, accountVars>>
    \/ \E f \in FCalls : RejectDeleteLands(f) /\ UNCHANGED <<micVars, accountVars>>
    \/ \E f \in FCalls : RejectFails(f) /\ UNCHANGED <<micVars, accountVars>>
    \/ \E f \in FCalls, x \in FUsers :
            fops < MaxFriendOps /\ RemoveFriend(f, x) /\ UNCHANGED <<micVars, accountVars>>
    \/ \E f \in FCalls, yes \in BOOLEAN : RemoveConfirmAnswers(f, yes) /\ UNCHANGED <<micVars, accountVars>>
    \/ \E f \in FCalls : RemoveDelMineLands(f) /\ UNCHANGED <<micVars, accountVars>>
    \/ \E f \in FCalls : RemoveDelTheirsLands(f) /\ UNCHANGED <<micVars, accountVars>>
    \/ \E f \in FCalls : RemoveFails(f) /\ UNCHANGED <<micVars, accountVars>>
    \/ \E c \in PageUsers : \E i \in 1..Len(subs[c]) :
            FriendsSnapshot(c, i) /\ UNCHANGED <<micVars, friendVars, accountVars>>
    \/ \E c \in PageUsers : \E job \in fljobs[c] :
            FriendProfileReturns(c, job) /\ UNCHANGED <<micVars, friendVars, accountVars>>
    \/ \E c \in PageUsers : \E job \in fljobs[c] :
            FriendProfileFails(c, job) /\ UNCHANGED <<micVars, friendVars, accountVars>>

SpecFriendOps == InitFriendOps /\ [][NextFriendOps]_vars

\* ------------------------------------- behaviours of one page's friends list

ListUsers == 1..NumListUsers        \* user 1 has the page open, the others are known to it

\* User 1 has the private page open.  Some of the other users are its friends
\* (both edges stored); each of the rest has a request pending with user 1,
\* stored under the sender's id as document id.
InitFriendsList ==
    /\ stage = StageDoc(EmptyMics)
    /\ InitClients({}, {})
    /\ canMicAscent = <<>>
    /\ \E F \in SUBSET (ListUsers \ {1}) :
            /\ friends = UNION {{<<1, x>>, <<x, 1>>} : x \in F}
            /\ received_friend_requests =
                    {[id |-> x, to |-> 1, from |-> x] : x \in ListUsers \ ({1} \cup F)}
            /\ sent_friend_requests =
                    {[id |-> x, owner |-> x, to |-> 1] : x \in ListUsers \ ({1} \cup F)}
    /\ nextReqId = NumListUsers + 1
    /\ fpc = [f \in TwoCallsEach({1}) |-> "idle"]
    /\ ftarget = [f \in TwoCallsEach({1}) |-> NoUser]
    /\ fpage = [f \in TwoCallsEach({1}) |-> "none"]
    /\ freqId = [f \in TwoCallsEach({1}) |-> 0]
    /\ friendAlert = [u \in ListUsers |-> "none"]
    /\ fops = 0
    /\ InitPages([u \in {1} |-> "private"], {}, UserData(ListUsers), <<>>,
                 {[u \in {1} |-> TRUE]})

SpecFriendsList == InitFriendsList /\ [][NextFriendOps]_vars

\* ------------------------------------------------- the room users listener

\* The documents of the users collection, as the roster callback reads them.
UserDocsNow == {FriendEntry(u) : u \in DOMAIN users}

\* The onSnapshot callback of the users collection runs on the public page c:
\* every document of the snapshot is pushed (in document order) and the roster
\* is drawn.
RoomUsersSnapshot(c, i) ==
    /\ i \in DOMAIN subs[c]
    /\ subs[c][i].kind = "roomUsers" /\ subs[c][i].live
    /\ subs[c][i].seen # UserDocsNow
    /\ subs' = [subs EXCEPT ![c][i].seen = UserDocsNow]
    /\ usersListDiv' = [usersListDiv EXCEPT ![c] =
            RenderUsersList([k \in 1..Len(Ascending(DOMAIN users)) |->
                                FriendEntry(Ascending(DOMAIN users)[k])], c)]
    /\ NoteCallback(c, "roomUsers")
    /\ UNCHANGED <<users, messages, pendingAdds, page, selectedFriendId, sendDisabled,
                   chatMessagesDisplay, unsubscribe, selpc, friendId, friendsListDiv,
                   fljobs, touched, unloaded, chatAlert, chatOps>>

\* --------------------------------------- behaviours that draw the two lists

RosterUsers == 1..NumRosterUsers

\* The names and the online flags of the users are any; user 1 has the private
\* page open and every other user as friend, user 2 has the public page open.
InitLists ==
    /\ stage = StageDoc(EmptyMics)
    /\ InitClients({}, {})
    /\ canMicAscent = <<>>
    /\ InitFriends(UNION {{<<1, x>>, <<x, 1>>} : x \in RosterUsers \ {1}},
                   RosterUsers, {})
    /\ \E U \in [RosterUsers -> [username : {Names[k] : k \in DOMAIN Names},
                                 isOnline : BOOLEAN]] :
            InitPages((1 :> "private") @@ (2 :> "public"), {}, U, <<>>,
                      {(1 :> TRUE) @@ (2 :> FALSE)})

NextLists ==
    \/ \E c \in PageUsers : \E i \in 1..Len(subs[c]) :
            FriendsSnapshot(c, i) /\ UNCHANGED <<micVars, friendVars, accountVars>>
    \/ \E c \in PageUsers : \E job \in fljobs[c] :
            FriendProfileReturns(c, job) /\ UNCHANGED <<micVars, friendVars, accountVars>>
    \/ \E c \in PageUsers : \E job \in fljobs[c] :
            FriendProfileFails(c, job) /\ UNCHANGED <<micVars, friendVars, accountVars>>
    \/ \E c \in PageUsers : \E i \in 1..Len(subs[c]) :
            RoomUsersSnapshot(c, i) /\ UNCHANGED <<micVars, friendVars, accountVars>>

SpecLists == InitLists /\ [][NextLists]_vars

\* ------------------------------------------------------------ message feeds

\* Faulty variant: the two ids joined as they come.
MutChatIdUnsorted(a, b) == StringOf(a) \o <<"_">> \o StringOf(b)

\* [a, b].sort().join('_'): the ids are compared as strings; null (no chat
\* partner) sorts as "null", after every id of digits, and joins as "".
ChatId(a, b) ==
    IF b = NoUser THEN StringOf(a) \o <<"_">>
    ELSE IF StrLess(StringOf(b), StringOf(a))
         THEN StringOf(b) \o <<"_">> \o StringOf(a)
         ELSE StringOf(a) \o <<"_">> \o StringOf(b)

\* collection(db, 'private_chats', chatCollectionId, 'messages')
PrivateFeed(a, b) == [coll |-> "private_chats", id |-> ChatId(a, b)]

\* The message documents of a feed; a document is named by its place in
\* `messages`.
FeedDocs(feed) == {i \in DOMAIN messages : messages[i].feed = feed}

\* orderBy('timestamp', 'asc'): document i comes before document j (documents
\* of one timestamp in the order of their ids).
Earlier(i, j) ==
    \/ messages[i].timestamp < messages[j].timestamp
    \/ messages[i].timestamp = messages[j].timestamp /\ i < j

\* The first n documents of S in that order: limit(n) of the ascending query
\* (the k-th document of the result has k - 1 documents of S before it).
FirstByTime(S, n) ==
    [k \in 1..(IF Cardinality(S) < n THEN Cardinality(S) ELSE n) |->
        CHOOSE d \in S : Cardinality({e \in S : Earlier(e, d)}) = k - 1]

\* query(messagesRef, orderBy('timestamp', 'asc'), limit(50))
MessagesQuery(feed) == FirstByTime(FeedDocs(feed), FeedLimit)

\* The texts typed into the message input.
Texts == {<<>>, <<" ">>, <<"a">>, <<" ", "a">>}

\* Faulty variant: nothing is trimmed.
MutTrimNone(text) == text

\* messageInput.value.trim()
RECURSIVE Trim(_)
Trim(text) ==
    IF text = <<>> THEN <<>>
    ELSE IF Head(text) = " " THEN Trim(Tail(text))
    ELSE IF text[Len(text)] = " " THEN Trim(SubSeq(text, 1, Len(text) - 1))
    ELSE text

\* The page state the chat operations leave alone.
listView == <<users, page, friendsListDiv, usersListDiv, fljobs, touched>>

\* ------------------------------------------------------------- selectFriend

\* selectFriend(x) is called on the private page of call s (a click on a
\* friend's entry, or the partnerId of the page's URL) for a user other than
\* the one selected: the selection moves, the view is cleared, and the call
\* suspends at the getDoc of the partner's profile.
SelectFriend(s, x) ==
    LET c == s[1]
    IN  /\ page[c] = "private" /\ ~unloaded[c]
        /\ selpc[s] = "idle"
        /\ x \in DOMAIN users
        /\ selectedFriendId[c] # x
        /\ chatOps' = chatOps + 1
        /\ selectedFriendId' = [selectedFriendId EXCEPT ![c] = x]
        /\ chatMessagesDisplay' = [chatMessagesDisplay EXCEPT ![c] = <<>>]
        /\ selpc' = [selpc EXCEPT ![s] = "getDoc"]
        /\ friendId' = [friendId EXCEPT ![s] = x]
        /\ UNCHANGED <<listView, messages, pendingAdds, sendDisabled, subs,
                       unsubscribe, unloaded, lateCallbacks, chatAlert>>

\* The getDoc resolves (ok) or rejects: the send controls are enabled when the
\* profile was read and exists; then, in either case, the handle of the
\* message subscription is invoked and a subscription to the feed of the
\* partner now selected is opened.
SelectGetDocReturns(s, ok) ==
    LET c == s[1]
        found == ok /\ friendId[s] \in DOMAIN users
    IN  /\ selpc[s] = "getDoc" /\ ~unloaded[c]
        /\ selpc' = [selpc EXCEPT ![s] = "idle"]
        /\ sendDisabled' = [sendDisabled EXCEPT ![c] = ~found]
        /\ chatAlert' = IF found THEN chatAlert
                        ELSE [chatAlert EXCEPT ![c] = "partnerNotLoaded"]
        /\ subs' = [subs EXCEPT ![c] =
                Append(Unsubscribed(c, "messages"),
                       NewSub("messages", PrivateFeed(c, selectedFriendId[c])))]
        /\ unsubscribe' = [unsubscribe EXCEPT ![c]["messages"] = Len(subs[c]) + 1]
        /\ UNCHANGED <<listView, messages, pendingAdds, selectedFriendId,
                       chatMessagesDisplay, friendId, unloaded, lateCallbacks, chatOps>>

\* ------------------------------------ sendPrivateMessage, sendPublicMessage

\* The message document a send appends.
NewMessage(feed, c, to, text, t) ==
    [feed |-> feed, senderId |-> c, receiverId |-> to, text |-> text, timestamp |-> t]

\* A click on the send button, or Enter in the message input, of the private
\* page c with `text` typed, at time t: without text or without chat partner a
\* warning is shown; else addDoc is issued and the call suspends.
SendPrivateMessage(c, text, t) ==
    LET messageText == Trim(text)
    IN  /\ page[c] = "private" /\ ~unloaded[c]
        /\ ~sendDisabled[c]
        /\ chatOps' = chatOps + 1
        /\ IF messageText = <<>> \/ selectedFriendId[c] = NoUser
           THEN /\ chatAlert' = [chatAlert EXCEPT ![c] = "warning"]
                /\ UNCHANGED pendingAdds
           ELSE /\ pendingAdds' = pendingAdds \cup
                        {NewMessage(PrivateFeed(c, selectedFriendId[c]), c,
                                    selectedFriendId[c], messageText, t)}
                /\ UNCHANGED chatAlert
        /\ UNCHANGED <<listView, messages, selectedFriendId, sendDisabled,
                       chatMessagesDisplay, subs, unsubscribe, selpc, friendId,
                       unloaded, lateCallbacks>>

\* The same on the public page: without text a warning is shown; else addDoc
\* to the feed of the room is issued.
SendPublicMessage(c, text, t) ==
    LET messageText == Trim(text)
    IN  /\ page[c] = "public" /\ ~unloaded[c]
        /\ chatOps' = chatOps + 1
        /\ IF messageText = <<>>
           THEN /\ chatAlert' = [chatAlert EXCEPT ![c] = "warning"]
                /\ UNCHANGED pendingAdds
           ELSE /\ pendingAdds' = pendingAdds \cup
                        {NewMessage(PublicFeed, c, NoUser, messageText, t)}
                /\ UNCHANGED chatAlert
        /\ UNCHANGED <<listView, messages, selectedFriendId, sendDisabled,
                       chatMessagesDisplay, subs, unsubscribe, selpc, friendId,
                       unloaded, lateCallbacks>>

\* The store accepts the document of an addDoc in flight (the call then clears
\* the input field, which is not kept here).
AddDocLands(m) ==
    /\ m \in pendingAdds
    /\ pendingAdds' = pendingAdds \ {m}
    /\ messages' = Append(messages, m)
    /\ UNCHANGED <<listView, selectedFriendId, sendDisabled, chatMessagesDisplay,
                   subs, unsubscribe, selpc, friendId, unloaded, lateCallbacks,
                   chatAlert, chatOps>>

\* The addDoc rejects: the catch block reports the failure.
AddDocFails(m) ==
    /\ m \in pendingAdds
    /\ pendingAdds' = pendingAdds \ {m}
    /\ chatAlert' = IF m.senderId \in DOMAIN chatAlert /\ ~unloaded[m.senderId]
                    THEN [chatAlert EXCEPT ![m.senderId] = "sendFailed"]
                    ELSE chatAlert
    /\ UNCHANGED <<listView, messages, selectedFriendId, sendDisabled,
                   chatMessagesDisplay, subs, unsubscribe, selpc, friendId,
                   unloaded, lateCallbacks, chatOps>>

\* ------------------------------------------------------ message listeners

\* The onSnapshot callback of a message subscription of page c runs: of the
\* changes since the snapshot before, each added document is passed to
\* displayMessage, which appends it to the view; removed and modified
\* documents are passed over.
MessagesSnapshot(c, i) ==
    /\ i \in DOMAIN subs[c]
    /\ subs[c][i].kind = "messages" /\ subs[c][i].live
    /\ \E result \in {MessagesQuery(subs[c][i].feed)} :
        LET now == {result[k] : k \in DOMAIN result}
            added == SelectSeq(result, LAMBDA d : d \notin subs[c][i].seen)
        IN  /\ now # subs[c][i].seen
            /\ subs' = [subs EXCEPT ![c][i].seen = now]
            /\ chatMessagesDisplay' = [chatMessagesDisplay EXCEPT ![c] = @ \o added]
    /\ NoteCallback(c, "messages")
    /\ UNCHANGED <<listView, messages, pendingAdds, selectedFriendId,
                   sendDisabled, unsubscribe, selpc, friendId, unloaded,
                   chatAlert, chatOps>>

\* The callback of a live subscription of another kind runs; in the behaviours
\* of the chat operations its collection does not change, so it draws what is
\* drawn already.
OtherSnapshot(c, i) ==
    /\ i \in DOMAIN subs[c]
    /\ subs[c][i].kind # "messages" /\ subs[c][i].live
    /\ NoteCallback(c, subs[c][i].kind)
    /\ UNCHANGED <<listView, messages, pendingAdds, selectedFriendId, sendDisabled,
                   chatMessagesDisplay, subs, unsubscribe, selpc, friendId, unloaded,
                   chatAlert, chatOps>>

\* ----------------------------------------------------------- beforeunload

\* The handle variables a page invokes in its beforeunload listener.
TeardownKinds(pg) ==
    IF pg = "private" THEN {"messages", "friends", "requests", "micStage"}
    ELSE {"messages", "roomUsers"}

\* Faulty variant: the handle of the message subscription is not invoked.
MutTeardownKeepsMessages(c) ==
    /\ ~unloaded[c]
    /\ unloaded' = [unloaded EXCEPT ![c] = TRUE]
    /\ subs' = [subs EXCEPT ![c] =
            [i \in DOMAIN subs[c] |->
                IF \E k \in TeardownKinds(page[c]) \ {"messages"} : unsubscribe[c][k] = i
                THEN [subs[c][i] EXCEPT !.live = FALSE] ELSE subs[c][i]]]
    /\ UNCHANGED <<listView, messages, pendingAdds, selectedFriendId, sendDisabled,
                   chatMessagesDisplay, unsubscribe, selpc, friendId, lateCallbacks,
                   chatAlert, chatOps>>

\* beforeunload on page c: every handle variable of the page that is not null
\* is invoked.  The page runs nothing of its own afterwards.
Teardown(c) ==
    /\ ~unloaded[c]
    /\ unloaded' = [unloaded EXCEPT ![c] = TRUE]
    /\ subs' = [subs EXCEPT ![c] =
            [i \in DOMAIN subs[c] |->
                IF \E k \in TeardownKinds(page[c]) : unsubscribe[c][k] = i
                THEN [subs[c][i] EXCEPT !.live = FALSE] ELSE subs[c][i]]]
    /\ UNCHANGED <<listView, messages, pendingAdds, selectedFriendId, sendDisabled,
                   chatMessagesDisplay, unsubscribe, selpc, friendId, lateCallbacks,
                   chatAlert, chatOps>>

\* ---------------------------------------------- behaviours of chat operations

ChatUsers == 1..NumChatUsers
Stamps == 1..MaxStamp               \* the values Date.now() takes

\* Each user has one page open, private or public; no message is stored.  (The
\* markup that decides whether the send controls of a private page start
\* disabled is not part of the sources: both starts are taken.)
InitChat ==
    /\ stage = StageDoc(EmptyMics)
    /\ InitClients({}, {})
    /\ canMicAscent = <<>>
    /\ InitFriends({}, ChatUsers, {})
    /\ \E pg \in [ChatUsers -> Pages] :
            InitPages(pg, TwoCallsEach(ChatUsers), UserData(ChatUsers), <<>>,
                      [ChatUsers -> BOOLEAN])

NextChat ==
    \/ \E s \in SelCalls, x \in DOMAIN users :
            chatOps < MaxChatOps /\ SelectFriend(s, x)
                /\ UNCHANGED <<micVars, friendVars, accountVars>>
    \/ \E s \in SelCalls, ok \in BOOLEAN :
            SelectGetDocReturns(s, ok) /\ UNCHANGED <<micVars, friendVars, accountVars>>
    \/ \E c \in PageUsers, text \in Texts, t \in Stamps :
            chatOps < MaxChatOps /\ SendPrivateMessage(c, text, t)
                /\ UNCHANGED <<micVars, friendVars, accountVars>>
    \/ \E c \in PageUsers, text \in Texts, t \in Stamps :
            chatOps < MaxChatOps /\ SendPublicMessage(c, text, t)
                /\ UNCHANGED <<micVars, friendVars, accountVars>>
    \/ \E m \in pendingAdds : AddDocLands(m) /\ UNCHANGED <<micVars, friendVars, accountVars>>
    \/ \E m \in pendingAdds : AddDocFails(m) /\ UNCHANGED <<micVars, friendVars, accountVars>>
    \/ \E c \in PageUsers : \E i \in 1..Len(subs[c]) :
            MessagesSnapshot(c, i) /\ UNCHANGED <<micVars, friendVars, accountVars>>
    \/ \E c \in PageUsers : \E i \in 1..Len(subs[c]) :
            OtherSnapshot(c, i) /\ UNCHANGED <<micVars, friendVars, accountVars>>
    \/ \E c \in PageUsers : Teardown(c) /\ UNCHANGED <<micVars, friendVars, accountVars>>

SpecChat == InitChat /\ [][NextChat]_vars

\* ------------------------------------------ behaviours on feeds that are long

\* n messages of earlier sessions in the room, sent before the behaviour
\* starts (timestamps 1 - n .. 0).
Stored(n) ==
    [k \in 1..n |-> NewMessage(PublicFeed, 2, NoUser, <<"a">>, k - n)]

\* User 1 opens the public page when the room holds one message less than the
\* limit of the query, or more than the limit.
InitFeedLimit ==
    /\ stage = StageDoc(EmptyMics)
    /\ InitClients({}, {})
    /\ canMicAscent = <<>>
    /\ InitFriends({}, ChatUsers, {})
    /\ \E n \in {FeedLimit - 1, MaxStored} :
            InitPages((1 :> "public"), {}, UserData(ChatUsers), Stored(n),
                      {(1 :> FALSE)})

\* The page sends into the room and receives the snapshots of the room.
NextFeedLimit ==
    \/ \E c \in PageUsers, text \in Texts, t \in Stamps :
            chatOps < MaxChatOps /\ SendPublicMessage(c, text, t)
                /\ UNCHANGED <<micVars, friendVars, accountVars>>
    \/ \E m \in pendingAdds : AddDocLands(m) /\ UNCHANGED <<micVars, friendVars, accountVars>>
    \/ \E m \in pendingAdds : AddDocFails(m) /\ UNCHANGED <<micVars, friendVars, accountVars>>
    \/ \E c \in PageUsers : \E i \in 1..Len(subs[c]) :
            MessagesSnapshot(c, i) /\ UNCHANGED <<micVars, friendVars, accountVars>>

SpecFeedLimit == InitFeedLimit /\ [][NextFeedLimit]_vars

\* Every change of a query's result is delivered to its live subscriptions.
FeedFairness ==
    \A c \in {1} :
        WF_vars(\E i \in 1..Len(subs[c]) :
                    MessagesSnapshot(c, i) /\ UNCHANGED <<micVars, friendVars, accountVars>>)

SpecFeedLive == InitFeedLimit /\ [][NextFeedLimit]_vars /\ FeedFairness

\* The steps of sendFriendRequest in the behaviours in which the store rejects
\* no query and no write.
NextFriendNoFaults ==
    \/ \E f \in FCalls, target \in FUsers, pg \in Pages :
            fops < MaxFriendOps /\ SendFriendRequest(f, target, pg) /\ UNCHANGED <<micVars, pageVars, accountVars>>
    \/ \E f \in FCalls : GetFriendsReturns(f) /\ UNCHANGED <<micVars, pageVars, accountVars>>
    \/ \E f \in FCalls : GetSentReturns(f) /\ UNCHANGED <<micVars, pageVars, accountVars>>
    \/ \E f \in FCalls : GetReceivedReturns(f) /\ UNCHANGED <<micVars, pageVars, accountVars>>
    \/ \E f \in FCalls, yes \in BOOLEAN : ConfirmAnswers(f, yes) /\ UNCHANGED <<micVars, pageVars, accountVars>>
    \/ \E f \in FCalls : GetUserReturns(f) /\ UNCHANGED <<micVars, pageVars, accountVars>>
    \/ \E f \in FCalls : SetReceivedLands(f) /\ UNCHANGED <<micVars, pageVars, accountVars>>
    \/ \E f \in FCalls : SetSentLands(f) /\ UNCHANGED <<micVars, pageVars, accountVars>>

SpecFriendNoFaults == InitFriendRequests /\ [][NextFriendNoFaults]_vars

\* ---------------------------------------- behaviours of blocking and chatting

\* Users 1 and 2 are friends; user 1 has the private page open, with its
\* friends list not drawn yet and nobody selected.
InitBlock ==
    /\ stage = StageDoc(EmptyMics)
    /\ InitClients({}, {})
    /\ canMicAscent = <<>>
    /\ InitFriends({<<1, 2>>, <<2, 1>>}, FriendUsers, OneCallEach({1}))
    /\ InitPages((1 :> "private"), OneCallEach({1}), UserData(FriendUsers), <<>>,
                 {(1 :> TRUE)})

\* The page draws its friends list, blocks a friend shown in it, selects a
\* friend by a click on an entry of the list, and sends.
NextBlock ==
    \/ \E f \in FCalls, x \in FUsers :
            fops < MaxFriendOps /\ BlockUser(f, x) /\ UNCHANGED micVars
    \/ \E f \in FCalls, yes \in BOOLEAN : BlockConfirmAnswers(f, yes) /\ UNCHANGED micVars
    \/ \E f \in FCalls : BlockSetLands(f) /\ UNCHANGED micVars
    \/ \E f \in FCalls : BlockFails(f) /\ UNCHANGED micVars
    \/ \E f \in FCalls, ok \in BOOLEAN : BlockDelMineReturns(f, ok) /\ UNCHANGED micVars
    \/ \E f \in FCalls, ok \in BOOLEAN : BlockDelTheirsReturns(f, ok) /\ UNCHANGED micVars
    \/ \E c \in PageUsers : \E i \in 1..Len(subs[c]) :
            FriendsSnapshot(c, i) /\ UNCHANGED <<micVars, friendVars, accountVars>>
    \/ \E c \in PageUsers : \E job \in fljobs[c] :
            FriendProfileReturns(c, job) /\ UNCHANGED <<micVars, friendVars, accountVars>>
    \/ \E s \in SelCalls : \E i \in DOMAIN friendsListDiv[s[1]] :
            chatOps < MaxChatOps /\ SelectFriend(s, friendsListDiv[s[1]][i].userId)
                /\ UNCHANGED <<micVars, friendVars, accountVars>>
    \/ \E s \in SelCalls, ok \in BOOLEAN :
            SelectGetDocReturns(s, ok) /\ UNCHANGED <<micVars, friendVars, accountVars>>
    \/ \E c \in PageUsers, text \in Texts, t \in Stamps :
            chatOps < MaxChatOps /\ SendPrivateMessage(c, text, t)
                /\ UNCHANGED <<micVars, friendVars, accountVars>>
    \/ \E m \in pendingAdds : AddDocLands(m) /\ UNCHANGED <<micVars, friendVars, accountVars>>
    \/ \E c \in PageUsers : \E i \in 1..Len(subs[c]) :
            MessagesSnapshot(c, i) /\ UNCHANGED <<micVars, friendVars, accountVars>>

SpecBlock == InitBlock /\ [][NextBlock]_vars

\* ------------------------------------------------------------------ logout

\* What the logout handler leaves alone.
logoutRest == <<messages, pendingAdds, page, selectedFriendId, sendDisabled,
                chatMessagesDisplay, subs, unsubscribe, selpc, friendId,
                friendsListDiv, usersListDiv, fljobs, touched, unloaded,
                lateCallbacks, chatAlert, chatOps, blocked_users>>

\* A click on the logout button of the lobby page or of the public page by a
\* signed-in user (currentUser.id is set): the handler issues
\* updateDoc(users/me, { isOnline: false, ... }) and suspends.
LogoutClick(c) ==
    /\ page[c] \in {"index", "public"} /\ ~unloaded[c]
    /\ signedIn[c]
    /\ logoutpc[c] = "idle"
    /\ logoutpc' = [logoutpc EXCEPT ![c] = "updateDoc"]
    /\ UNCHANGED <<users, signedIn, logoutAlert, logoutRest>>

\* The store applies the updateDoc and the handler resumes at signOut(auth).
\* The lobby page imports signOut and suspends in the call; the public page
\* does not import it: the reference throws into the catch block, which
\* reports the failure.
LogoutUpdateDocLands(c) ==
    /\ logoutpc[c] = "updateDoc"
    /\ users' = [users EXCEPT ![c].isOnline = FALSE]
    /\ IF page[c] = "index"
       THEN /\ logoutpc' = [logoutpc EXCEPT ![c] = "signOut"]
            /\ UNCHANGED logoutAlert
       ELSE /\ logoutpc' = [logoutpc EXCEPT ![c] = "idle"]
            /\ logoutAlert' = [logoutAlert EXCEPT ![c] = "logoutFailed"]
    /\ UNCHANGED <<signedIn, logoutRest>>

\* signOut resolves: the session is ended and the handler reports success.
SignOutReturns(c) ==
    /\ logoutpc[c] = "signOut"
    /\ signedIn' = [signedIn EXCEPT ![c] = FALSE]
    /\ logoutpc' = [logoutpc EXCEPT ![c] = "idle"]
    /\ logoutAlert' = [logoutAlert EXCEPT ![c] = "loggedOut"]
    /\ UNCHANGED <<users, logoutRest>>

\* updateDoc or signOut rejects: the catch block reports the failure.
LogoutCallFails(c) ==
    /\ logoutpc[c] \in {"updateDoc", "signOut"}
    /\ logoutpc' = [logoutpc EXCEPT ![c] = "idle"]
    /\ logoutAlert' = [logoutAlert EXCEPT ![c] = "logoutFailed"]
    /\ UNCHANGED <<users, signedIn, logoutRest>>

\* Every user is signed in and online, with the lobby page or the public page
\* open.
InitLogout ==
    /\ stage = StageDoc(EmptyMics)
    /\ InitClients({}, {})
    /\ canMicAscent = <<>>
    /\ InitFriends({}, RosterUsers, {})
    /\ \E pg \in [RosterUsers -> {"index", "public"}] :
            InitPages(pg, {}, [u \in RosterUsers |-> [UserData(RosterUsers)[u]
                                                      EXCEPT !.isOnline = TRUE]],
                      <<>>, {[u \in RosterUsers |-> pg[u] = "index"]})

NextLogout ==
    \/ \E c \in PageUsers : LogoutClick(c) /\ UNCHANGED <<micVars, friendVars>>
    \/ \E c \in PageUsers : LogoutUpdateDocLands(c) /\ UNCHANGED <<micVars, friendVars>>
    \/ \E c \in PageUsers : SignOutReturns(c) /\ UNCHANGED <<micVars, friendVars>>
    \/ \E c \in PageUsers : LogoutCallFails(c) /\ UNCHANGED <<micVars, friendVars>>

SpecLogout == InitLogout /\ [][NextLogout]_vars

\* ------------------------------------------------------------- properties

\* The calls of client c.
CallsOf(c) == {p \in Procs : p[1] = c}

\* The mics array of the stored document (none while the document is absent).
StoredMics == IF stage.exists THEN stage.mics ELSE <<>>

\* C1: in every reachable state of the stored stage, whatever the interleaving
\* of the reads and writes of the three operations, no occupant id is in more
\* than one spot.
C1_NoOccupantTwice ==
    \A i, j \in 1..Len(StoredMics) :
        (i # j /\ StoredMics[i].userId # NoUser)
            => StoredMics[i].userId # StoredMics[j].userId

\* Two clients are on the stage and a further write is in flight.
C1_Witness ==
    /\ Cardinality(Seated(StoredMics) \cap Clients) = 2
    /\ \E p \in Procs : pc[p] = "setDoc"

\* C2: a client told that its request succeeded is in a spot of the stored
\* stage until it leaves; two concurrent requests for the same empty spot are
\* never both told success while only one of them is stored.
C2_SuccessMeansStored ==
    \A c \in Clients :
        (lastAlert[c] = "joined" /\ \A p \in CallsOf(c) : action[p] # "leave")
            => c \in Seated(StoredMics)

\* The two calls read the same stage [Empty, X, Empty, Empty] and each put its
\* client into spot 0 of its copy.
BothResolvedSpot0(p, q) ==
    /\ p # q /\ p[1] # q[1]
    /\ action[p] = "request" /\ action[q] = "request"
    /\ Len(micStageData[p]) = MicCount /\ Len(micStageData[q]) = MicCount
    /\ At(micStageData[p], 0) = NewMic(p[1])
    /\ At(micStageData[q], 0) = NewMic(q[1])
    /\ \A j \in 1..(MicCount - 1) : At(micStageData[p], j) = At(micStageData[q], j)
    /\ At(micStageData[p], 1).userId \notin {NoUser, p[1], q[1]}
    /\ At(micStageData[p], 2) = NullMic
    /\ At(micStageData[p], 3) = NullMic

\* C3: from the stage [Empty, X, Empty, Empty], when Y and Z both read before
\* either writes, both resolve spot 0 and both writes are accepted: the write
\* that lands last leaves its client in spot 0 and the other client in no spot.
C3_LastWriteWins ==
    [][\A p, q \in Procs :
        (/\ BothResolvedSpot0(p, q)
         /\ pc[q] = "ack"
         /\ pc[p] = "setDoc" /\ pc'[p] = "ack")
        => /\ stage'.exists
           /\ At(stage'.mics, 0).userId = p[1]
           /\ q[1] \notin Seated(stage'.mics)]_vars

\* Both writes have landed; the stage holds the later one only.
C3_Witness ==
    \E p, q \in Procs :
        /\ BothResolvedSpot0(p, q)
        /\ pc[p] = "ack" /\ pc[q] = "ack"
        /\ stage = StageDoc(micStageData[p])
        /\ q[1] \notin Seated(StoredMics)

\* C4: whatever the sequence and interleaving of requests by distinct clients
\* on a stage that starts empty, at most 4 spots are taken, and every client
\* found in a spot issued a request that found it in no spot.
C4_AtMostFourAllAsked ==
    /\ Cardinality({i \in 1..Len(StoredMics) : StoredMics[i].userId # NoUser})
            <= MicCount
    /\ Seated(StoredMics) \subseteq asked

\* More clients asked than there are spots: four are seated, one was refused.
C4_Witness ==
    /\ Cardinality(Seated(StoredMics)) = MicCount
    /\ \E c \in Clients : lastAlert[c] = "noEmptySpot"

\* C5: the stored array has exactly 4 entries in every reachable state: the
\* listener creates it with 4 empty spots and no write of the three operations
\* changes its length.
C5_AlwaysFourSpots == stage.exists => Len(stage.mics) = MicCount

\* One click only, a request that succeeded, and the stage is empty again: the
\* listener's creating write landed after the request's write.
C5_Witness ==
    /\ ops = 1
    /\ stage = StageDoc(EmptyMics)
    /\ \E c \in Clients : lastAlert[c] = "joined"

\* The step in which the getDoc of call p resolves (and does not reject).
GetDocStep(p) ==
    /\ pc[p] = "getDoc"
    /\ pc'[p] # "getDoc"
    /\ lastAlert'[p[1]] # "failed"

\* The step in which the store applies the setDoc of call p.
SetDocStep(p) == pc[p] = "setDoc" /\ pc'[p] = "ack"

\* C6: a request by an authorized client that is in no spot of the stage it
\* reads puts the client, unmuted, into the lowest-index empty spot, and writes
\* the whole array back with every other spot as read.
C6_RequestTakesFirstEmpty ==
    [][\A p \in Procs :
        LET c == p[1]
            mics == ReadMics(stage)
        IN  /\ (/\ GetDocStep(p) /\ action[p] = "request"
                /\ canMicAscent[c]
                /\ c \notin Seated(mics)
                /\ \E i \in 1..Len(mics) : mics[i].userId = NoUser)
               => /\ pc'[p] = "setDoc"
                  /\ Len(micStageData'[p]) = Len(mics)
                  /\ \E i \in 1..Len(mics) :
                        /\ mics[i].userId = NoUser
                        /\ \A j \in 1..(i - 1) : mics[j].userId # NoUser
                        /\ micStageData'[p][i] = [userId |-> c, isMuted |-> FALSE]
                        /\ \A j \in 1..Len(mics) :
                                j # i => micStageData'[p][j] = mics[j]
            /\ (SetDocStep(p) /\ action[p] = "request")
               => stage' = [exists |-> TRUE, mics |-> micStageData[p]]]_vars

\* From [Empty, X(muted), Empty, Empty]: the first client took spot 0, the
\* second took spot 2, and X is still muted in spot 1.
C6_Witness ==
    \E p \in Procs :
        /\ pc[p] = "ack" /\ action[p] = "request"
        /\ Len(StoredMics) = MicCount
        /\ At(StoredMics, 2).userId = p[1]
        /\ At(StoredMics, 1).isMuted
        /\ At(StoredMics, 0).userId \in Clients

\* Every spot of the array is taken by someone other than client c.
FullOfOthers(mics, c) ==
    /\ Len(mics) = MicCount
    /\ \A i \in 1..Len(mics) : mics[i].userId \notin {NoUser, c}

\* C7, as claimed: a request that reads a stage whose 4 spots are all taken by
\* others reports "stage full" and issues no write.
C7_FullStageRefused ==
    [][\A p \in Procs :
        (/\ GetDocStep(p) /\ action[p] = "request"
         /\ FullOfOthers(ReadMics(stage), p[1]))
        => /\ lastAlert'[p[1]] = "noEmptySpot"
           /\ pc'[p] = "idle"
           /\ stage' = stage]_vars

\* C7, amended: such a request by an authorized client reports "stage full";
\* by a client without permission it reports the missing permission; neither
\* issues a write.
C7_FullStageRefusedIfAuthorized ==
    [][\A p \in Procs :
        (/\ GetDocStep(p) /\ action[p] = "request"
         /\ FullOfOthers(ReadMics(stage), p[1]))
        => /\ lastAlert'[p[1]] =
                IF canMicAscent[p[1]] THEN "noEmptySpot" ELSE "noPermission"
           /\ pc'[p] = "idle"
           /\ stage' = stage]_vars

\* An authorized client was refused on a full stage.
C7_Witness ==
    \E c \in Clients :
        /\ canMicAscent[c]
        /\ lastAlert[c] = "noEmptySpot"
        /\ FullOfOthers(StoredMics, c)

\* C8: a request by a client that is already in a spot of the stage it reads
\* reports "already seated" and issues no write.
C8_AlreadySeatedRefused ==
    [][\A p \in Procs :
        (/\ GetDocStep(p) /\ action[p] = "request"
         /\ p[1] \in Seated(ReadMics(stage)))
        => /\ lastAlert'[p[1]] = "alreadyOnMic"
           /\ pc'[p] = "idle"
           /\ stage' = stage]_vars

\* A seated client asked again and was told it is already on the mic.
C8_Witness ==
    \E c \in Clients :
        /\ lastAlert[c] = "alreadyOnMic"
        /\ c \in Seated(StoredMics)

\* C9: a request by a client whose canMicAscent flag is false issues no write,
\* so no request of such a client ever puts it into a spot.
C9_UnauthorizedNeverWrites ==
    /\ [](\A c \in Clients :
            ~canMicAscent[c]
                => /\ c \notin asked
                   /\ \A p \in CallsOf(c) :
                        action[p] = "request" => pc[p] \in {"idle", "getDoc"})
    /\ [][\A p \in Procs :
            (GetDocStep(p) /\ action[p] = "request" /\ ~canMicAscent[p[1]])
            => pc'[p] = "idle" /\ stage' = stage]_vars

\* A client without permission asked while a spot was empty and was refused.
C9_Witness ==
    \E c \in Clients :
        /\ ~canMicAscent[c]
        /\ lastAlert[c] = "noPermission"
        /\ stage.exists
        /\ EmptyMicIndex(stage.mics) # NotFound

\* C10: a leave by a client that is in a spot of the stage it reads empties that
\* spot and writes the array back; when the write lands the client is in no
\* spot of the stored stage.
C10_LeaveEmptiesSpot ==
    [][\A p \in Procs :
        LET c == p[1]
            mics == ReadMics(stage)
        IN  /\ (GetDocStep(p) /\ action[p] = "leave" /\ c \in Seated(mics))
               => /\ pc'[p] = "setDoc"
                  /\ Len(micStageData'[p]) = Len(mics)
                  /\ \A j \in 1..Len(mics) :
                        micStageData'[p][j] =
                            IF mics[j].userId = c THEN NullMic ELSE mics[j]
            /\ (SetDocStep(p) /\ action[p] = "leave")
               => /\ stage' = [exists |-> TRUE, mics |-> micStageData[p]]
                  /\ c \notin Seated(stage'.mics)]_vars

\* A leave has landed: the client is gone and another occupant is still there.
C10_Witness ==
    \E p \in Procs :
        /\ pc[p] = "ack" /\ action[p] = "leave"
        /\ p[1] \notin Seated(StoredMics)
        /\ Seated(StoredMics) # {}

\* C11: a leave or a toggleMute by a client that is in no spot of the stage it
\* reads reports that the client is not on the mic and issues no write.
C11_NotSeatedRefused ==
    [][\A p \in Procs :
        (/\ GetDocStep(p) /\ action[p] \in {"leave", "toggleMute"}
         /\ p[1] \notin Seated(ReadMics(stage)))
        => /\ lastAlert'[p[1]] =
                IF action[p] = "leave" THEN "notOnMic" ELSE "mustBeOnMic"
           /\ pc'[p] = "idle"
           /\ stage' = stage]_vars

\* A client whose page still shows it on the mic was told it is not on the mic:
\* another client's write had removed it.
C11_Witness ==
    \E c \in Clients :
        /\ lastAlert[c] \in {"notOnMic", "mustBeOnMic"}
        /\ \E i \in 1..Len(micCircles[c]) : micCircles[c][i].active
        /\ c \notin Seated(StoredMics)

\* The muted flag of client c's spot in a mics array that holds c.
MutedIn(mics, c) == At(mics, CurrentMicIndex(mics, c)).isMuted

\* C12: each toggleMute of a seated client flips the flag of its spot in the
\* array it read, exactly once, and stores and reports the flipped value; so a
\* toggleMute that follows a toggleMute of the same client, and reads the flag
\* as that call wrote it, writes back the value the flag had before the two.
C12_ToggleTwiceRestores ==
    [][\A p \in Procs :
        LET c == p[1]
            mics == ReadMics(stage)
        IN  /\ (GetDocStep(p) /\ action[p] = "toggleMute" /\ c \in Seated(mics))
               => /\ pc'[p] = "setDoc"
                  /\ Len(micStageData'[p]) = Len(mics)
                  /\ \A j \in 1..Len(mics) :
                        micStageData'[p][j] =
                            IF mics[j].userId = c
                            THEN [userId |-> c, isMuted |-> ~mics[j].isMuted]
                            ELSE mics[j]
            /\ (SetDocStep(p) /\ action[p] = "toggleMute")
               => stage' = [exists |-> TRUE, mics |-> micStageData[p]]
            /\ (pc[p] = "ack" /\ pc'[p] = "idle" /\ action[p] = "toggleMute")
               => /\ isMuted'[c] = MutedIn(micStageData[p], c)
                  /\ lastAlert'[c] =
                        IF MutedIn(micStageData[p], c) THEN "muted" ELSE "unmuted"
            /\ (/\ GetDocStep(p) /\ action[p] = "toggleMute"
                /\ lastAlert[c] \in {"muted", "unmuted"}
                /\ c \in Seated(mics)
                /\ MutedIn(mics, c) = (lastAlert[c] = "muted"))
               => MutedIn(micStageData'[p], c) = (lastAlert[c] # "muted")]_vars

\* The client joined unmuted, muted itself, and its second toggleMute has
\* landed: the stored flag is unmuted again.
C12_Witness ==
    \E p \in Procs :
        /\ pc[p] = "ack" /\ action[p] = "toggleMute"
        /\ lastAlert[p[1]] = "muted"
        /\ stage = StageDoc(micStageData[p])
        /\ ~MutedIn(StoredMics, p[1])

\* C13: a request that follows a successful leave of the same client, and reads
\* a stage with an empty spot in which the client is not seated, puts the client
\* into the first empty spot, and once its write lands the client is seated:
\* nothing the earlier seating left behind refuses the request.
C13_RejoinAfterLeave ==
    [][\A p \in Procs :
        LET c == p[1]
            mics == ReadMics(stage)
        IN  /\ (/\ GetDocStep(p) /\ action[p] = "request"
                /\ lastAlert[c] = "left"
                /\ c \notin Seated(mics)
                /\ EmptyMicIndex(mics) # NotFound)
               => /\ pc'[p] = "setDoc"
                  /\ At(micStageData'[p], EmptyMicIndex(mics)) =
                        [userId |-> c, isMuted |-> FALSE]
            /\ (SetDocStep(p) /\ action[p] = "request" /\ lastAlert[c] = "left")
               => c \in Seated(stage'.mics)]_vars

\* The client joined, left, and the write of its next request has landed.
C13_Witness ==
    \E p \in Procs :
        /\ pc[p] = "ack" /\ action[p] = "request"
        /\ lastAlert[p[1]] = "left"
        /\ p[1] \in Seated(StoredMics)

\* The mics array of a document (none while the document is absent).
MicsOf(doc) == IF doc.exists THEN doc.mics ELSE <<>>

\* C14: relative to the stored stage, a user goes from not seated to seated and
\* unmuted only by the landing write of its own request, from seated to not
\* seated only by that of its own leave, and has its muted flag flipped only by
\* that of its own toggleMute; no other step changes a user's seated status or
\* muted flag.
C14_OnlyOwnTransitions ==
    [][\A u \in Seated(MicsOf(stage)) \cup Seated(MicsOf(stage')) :
        LET was == u \in Seated(MicsOf(stage))
            is == u \in Seated(MicsOf(stage'))
        IN  /\ (~was /\ is)
               => /\ \E p \in CallsOf(u) : SetDocStep(p) /\ action[p] = "request"
                  /\ ~MutedIn(MicsOf(stage'), u)
            /\ (was /\ ~is)
               => \E p \in CallsOf(u) : SetDocStep(p) /\ action[p] = "leave"
            /\ (was /\ is /\ MutedIn(MicsOf(stage'), u) # MutedIn(MicsOf(stage), u))
               => \E p \in CallsOf(u) : SetDocStep(p) /\ action[p] = "toggleMute"]_vars

\* C15: the mic operations of one page take effect in call order, each reading
\* the stage as the one before wrote it: on a stage no other client writes to,
\* every toggleMute write that lands on a stage holding the client flips the
\* client's stored flag (two quick clicks flip it twice, not once).
C15_BackToBackInOrder ==
    [][\A p \in Procs :
        (/\ SetDocStep(p) /\ action[p] = "toggleMute"
         /\ p[1] \in Seated(MicsOf(stage)))
        => MutedIn(MicsOf(stage'), p[1]) # MutedIn(MicsOf(stage), p[1])]_vars

\* Four empty spots.
FourEmpty == [i \in 1..MicCount |-> [userId |-> NoUser, isMuted |-> FALSE]]

\* The step in which the onSnapshot callback of client c runs.
SnapshotStep(c) == notify[c] /\ ~notify'[c]

\* C16: a listener that observes the stage document absent renders 4 empty
\* spots and issues a write that creates the stage with 4 empty spots; a mic
\* operation that reads the absent document does what it does on 4 empty spots
\* (a permitted request takes spot 0, a leave or toggleMute is refused).
C16_AbsentStageLazilyCreated ==
    [][/\ \A c \in Clients :
            /\ (SnapshotStep(c) /\ ~stage.exists)
               => initWrite'[c] /\ shownMics'[c] = FourEmpty
            /\ (initWrite[c] /\ ~initWrite'[c])
               => stage' = [exists |-> TRUE, mics |-> FourEmpty]
       /\ \A p \in Procs :
            (GetDocStep(p) /\ ~stage.exists)
            => CASE action[p] = "request" /\ canMicAscent[p[1]] ->
                        /\ pc'[p] = "setDoc"
                        /\ micStageData'[p] =
                              [FourEmpty EXCEPT ![1] =
                                    [userId |-> p[1], isMuted |-> FALSE]]
                 [] action[p] = "request" /\ ~canMicAscent[p[1]] ->
                        pc'[p] = "idle" /\ lastAlert'[p[1]] = "noPermission"
                 [] action[p] = "leave" ->
                        pc'[p] = "idle" /\ lastAlert'[p[1]] = "notOnMic"
                 [] action[p] = "toggleMute" ->
                        pc'[p] = "idle" /\ lastAlert'[p[1]] = "mustBeOnMic"]_vars

\* The document is absent, a listener has issued the creating write, and a
\* request that read the absent document is about to write spot 0.
C16_Witness ==
    /\ ~stage.exists
    /\ \E c \in Clients : initWrite[c] /\ shownMics[c] = FourEmpty
    /\ \E p \in Procs :
            /\ pc[p] = "setDoc" /\ action[p] = "request"
            /\ micStageData[p] =
                    [FourEmpty EXCEPT ![1] = [userId |-> p[1], isMuted |-> FALSE]]

\* C17: when change notifications are delivered, every write that lands (the
\* client's own or another's) is followed by a render of each listening client
\* from an array at least as recent: again and again the array last rendered
\* is the stored one and no notification is outstanding.
C17_EveryWriteRendered ==
    \A c \in Users : []<>(~notify[c] /\ shownMics[c] = SnapshotMics(stage))

\* A client's page has rendered the stage on which another client sits.
C17_Witness ==
    \E c, d \in Clients :
        /\ c # d
        /\ d \in Seated(StoredMics)
        /\ ~notify[c]
        /\ shownMics[c] = StoredMics

\* C18: every render shows each taken spot, the viewer's own included, with the
\* muted flag stored for that spot at the time, and marks as the viewer's own
\* exactly the spot whose userId is the viewer's id.
C18_ViewShowsStoredMute ==
    [][\A c \in Clients :
        SnapshotStep(c)
        => \A i \in 1..MicCount :
                LET mic == SnapshotMics(stage)[i]
                IN  /\ micCircles'[c][i].active = (mic.userId = c)
                    /\ mic.userId # NoUser
                       => micCircles'[c][i].slash = mic.isMuted]_vars

\* C19, as claimed: every render draws exactly 4 circles, and a render from the
\* array the render before was given draws the same view again.
C19_RenderIdempotent ==
    [][\A c \in Clients :
        SnapshotStep(c)
        => /\ Len(micCircles'[c]) = MicCount
           /\ shownMics'[c] = shownMics[c] => micCircles'[c] = micCircles[c]]_vars

\* The circle of a spot that is empty or taken by another user than the viewer.
PlainCircle(mic) ==
    [username |-> mic.userId, onStage |-> mic.userId # NoUser, active |-> FALSE,
     slash |-> mic.userId # NoUser /\ mic.isMuted, speaking |-> FALSE]

\* C19, amended: every render draws exactly 4 circles from the array passed: an
\* empty spot and a spot of another user are drawn from the array alone, so a
\* render from the same array draws them the same again; the viewer's own spot
\* is labelled and marked from the array, its icon follows the page's isMuted
\* and its speaking mark is drawn at random while isMuted is off.
C19_RenderTotalUpToOwnSpot ==
    [][\A c \in Clients :
        SnapshotStep(c)
        => /\ Len(micCircles'[c]) = MicCount
           /\ \A i \in 1..MicCount :
                LET mic == shownMics'[c][i]
                    circle == micCircles'[c][i]
                IN  IF mic.userId = c
                    THEN /\ circle.username = c /\ circle.onStage /\ circle.active
                         /\ circle.slash = isMuted[c]
                         /\ circle.speaking => ~isMuted[c]
                    ELSE /\ circle = PlainCircle(mic)
                         /\ shownMics'[c] = shownMics[c]
                            => circle = micCircles[c][i]]_vars

\* No button was clicked, the stage was absent and now holds the four empty
\* spots a listener wrote, and every page is up to date: the page whose write
\* created the stage rendered four empty spots before and after.
C19_Witness ==
    /\ ops = 0
    /\ stage = [exists |-> TRUE, mics |-> FourEmpty]
    /\ \A c \in Clients :
            ~notify[c] /\ ~initWrite[c] /\ shownMics[c] = FourEmpty

\* C20: a call of sendFriendRequest by A for B that finds no friend edge and no
\* request between them creates exactly one record in B's received requests,
\* under a new id and naming A as sender, and then one record in A's sent
\* requests under the same id; in a behaviour of one call that reports success
\* these two records are all there is.
C20_SendCreatesOnePending ==
    /\ [](\A A \in FUsers :
            (fops = 1 /\ friendAlert[A] = "sent")
            => \E B \in FUsers \ {A}, i \in 1..nextReqId :
                    /\ received_friend_requests = {[id |-> i, to |-> B, from |-> A]}
                    /\ sent_friend_requests = {[id |-> i, owner |-> A, to |-> B]})
    /\ [][\A f \in FCalls :
            LET A == f[1]
                B == ftarget[f]
                pending == [id |-> freqId'[f], to |-> B, from |-> A]
            IN  /\ (/\ fpc[f] = "getReceived" /\ fpc'[f] # "getReceived"
                    /\ friendAlert'[A] # "failed"
                    /\ ReceivedDocs(A, B) = {})
                   => fpc'[f] = IF fpage[f] = "private" THEN "getUser"
                                                       ELSE "setReceived"
                /\ (/\ fpc[f] = "getUser" /\ fpc'[f] # "getUser"
                    /\ friendAlert'[A] # "failed")
                   => fpc'[f] = "setReceived"
                /\ (fpc[f] = "setReceived" /\ fpc'[f] = "setSent")
                   => /\ \A r \in received_friend_requests : r.id # pending.id
                      /\ received_friend_requests' =
                            received_friend_requests \cup {pending}
                      /\ sent_friend_requests' = sent_friend_requests
                /\ (fpc[f] = "setSent" /\ fpc'[f] = "idle"
                        /\ friendAlert'[A] = "sent")
                   => /\ sent_friend_requests' = sent_friend_requests \cup
                            {[id |-> pending.id, owner |-> A, to |-> B]}
                      /\ received_friend_requests' = received_friend_requests]_vars

\* One call was made and has reported success: user 2 holds one pending record
\* from user 1, and user 1 the sent record of the same id.
C20_Witness ==
    /\ fops = 1
    /\ friendAlert[1] = "sent"
    /\ \E r \in received_friend_requests : r.to = 2 /\ r.from = 1
    /\ \E r \in sent_friend_requests : r.owner = 1 /\ r.to = 2

\* The step in which the last write of an accepting call lands and the call
\* reports the acceptance.
AcceptedStep(f) ==
    fpc[f] = "acceptDelete" /\ fpc'[f] = "idle" /\ friendAlert'[f[1]] = "accepted"

\* C21: acceptFriendRequest by B on a pending request from A writes A into B's
\* friends, then B into A's friends, then removes the pending record from B's
\* received requests, and reports the acceptance only after the three.
C21_AcceptMakesFriends ==
    [][\A f \in FCalls :
            LET B == f[1]
                A == ftarget[f]
            IN  /\ (fpc[f] = "idle" /\ fpc'[f] = "acceptSetMine")
                   => \E r \in received_friend_requests :
                        r.to = B /\ r.from = ftarget'[f] /\ r.id = freqId'[f]
                /\ (fpc[f] = "acceptSetMine" /\ fpc'[f] = "acceptSetTheirs")
                   => <<B, A>> \in friends'
                /\ (fpc[f] = "acceptSetTheirs" /\ fpc'[f] = "acceptDelete")
                   => <<A, B>> \in friends'
                /\ AcceptedStep(f)
                   => /\ \A r \in received_friend_requests' :
                            ~(r.to = B /\ r.id = freqId[f])
                      /\ friends' = friends
                /\ friendAlert'[B] = "accepted" /\ friendAlert[B] # "accepted"
                   => AcceptedStep(f) \/ \E g \in FCalls : g[1] = B /\ AcceptedStep(g)]_vars

\* User 1 sent a request, user 2 accepted it: both edges are stored and user 2
\* has no pending request left.
C21_Witness ==
    /\ fops = 2
    /\ friendAlert[2] = "accepted"
    /\ {<<1, 2>>, <<2, 1>>} \subseteq friends
    /\ Listed(2) = {}
    /\ \A f \in FCalls : fpc[f] = "idle"

\* The step in which the delete of a rejecting call lands and the call reports
\* the rejection.
RejectedStep(f) ==
    fpc[f] = "rejectDelete" /\ fpc'[f] = "idle" /\ friendAlert'[f[1]] = "rejected"

\* C22: rejectFriendRequest by B removes the pending record from B's received
\* requests, and no step of the call writes a friend edge in either direction.
C22_RejectRemovesOnly ==
    [][\A f \in FCalls :
            /\ (fpc[f] = "idle" /\ fpc'[f] = "rejectDelete")
               => /\ \E r \in received_friend_requests :
                        r.to = f[1] /\ r.id = freqId'[f]
                  /\ friends' = friends
            /\ RejectedStep(f)
               => /\ received_friend_requests' =
                        {r \in received_friend_requests :
                            ~(r.to = f[1] /\ r.id = freqId[f])}
                  /\ \A r \in received_friend_requests' :
                        ~(r.to = f[1] /\ r.id = freqId[f])
                  /\ friends' = friends]_vars

\* User 1 sent a request, user 2 rejected it: user 2 has no pending request
\* left and nobody is anybody's friend.
C22_Witness ==
    /\ fops = 2
    /\ friendAlert[1] = "sent"
    /\ friendAlert[2] = "rejected"
    /\ Listed(2) = {}
    /\ friends = {}
    /\ \A f \in FCalls : fpc[f] = "idle"

\* C23: in every reachable state, under any interleaving of the four friend
\* operations by any clients, there is at most one pending request record per
\* ordered pair (sender, receiver) and at most one friend edge per ordered
\* pair of users (a friend document is stored under the friend's id, so the
\* set of edges has one per pair by construction).
C23_UniquePairs ==
    /\ \A r1, r2 \in received_friend_requests :
            (r1.from = r2.from /\ r1.to = r2.to) => r1 = r2
    /\ \A e1, e2 \in friends : (e1[1] = e2[1] /\ e1[2] = e2[2]) => e1 = e2


\* The ids of the entries of the friends list shown on page c.
\* The documents of a feed with the n greatest timestamps.
Latest(feed, n) ==
    {d \in FeedDocs(feed) :
        Cardinality({e \in FeedDocs(feed) : Earlier(d, e)}) < n}

\* C25: when a conversation holds more than 50 messages, the initial display
\* of its feed (what the first snapshot of a subscription puts into the view)
\* consists of the 50 messages with the greatest timestamps.
C25_InitialShowsLatest ==
    [][\A c \in PageUsers : \A i \in DOMAIN subs[c] :
            (/\ subs[c][i].kind = "messages"
             /\ subs[c][i].seen = {} /\ subs'[c][i].seen # {}
             /\ Cardinality(FeedDocs(subs[c][i].feed)) > FeedLimit)
            => {chatMessagesDisplay'[c][k] :
                    k \in (Len(chatMessagesDisplay[c]) + 1)..Len(chatMessagesDisplay'[c])}
                = Latest(subs[c][i].feed, FeedLimit)]_vars

\* The ids of the entries of the friends list shown on page c.
ShownFriends(c) == {friendsListDiv[c][i].userId : i \in DOMAIN friendsListDiv[c]}

\* The friends listener of page c has been told of every change and no run of
\* its callback is suspended.
FriendsListSettled(c) ==
    /\ fljobs[c] = {}
    /\ touched[c] = {}
    /\ \A i \in DOMAIN subs[c] :
            (subs[c][i].kind = "friends" /\ subs[c][i].live)
                => subs[c][i].seen = FriendsOf(c)

\* C27: after any sequence of add/modify/remove notifications on the user's
\* friends collection, once every notification has been handled, the friends
\* list shown contains exactly the users who are friend edges of that user.
C27_ListShowsFriends ==
    \A c \in PageUsers : FriendsListSettled(c) => ShownFriends(c) = FriendsOf(c)


\* The list l has every online user before every offline one and, within each
\* group, the names in ascending order.
InListOrder(l) ==
    \A i, j \in DOMAIN l :
        i < j => /\ ~(l[j].isOnline /\ ~l[i].isOnline)
                 /\ (l[i].isOnline = l[j].isOnline)
                        => ~StrLess(l[j].username, l[i].username)

\* C28: every friends list and every room roster drawn is ordered with all
\* online users before all offline users and, within each group, in
\* lexicographic order of display name.
C28_ListsInOrder ==
    \A c \in PageUsers : InListOrder(friendsListDiv[c]) /\ InListOrder(usersListDiv[c])

\* A friends list and a roster of three entries are shown; each has an online
\* user drawn before an offline one whose id is lower, and two users of one
\* group with different names.
C28_Witness ==
    /\ \E i, j \in DOMAIN friendsListDiv[1] :
            /\ i < j /\ Len(friendsListDiv[1]) = 3
            /\ friendsListDiv[1][i].isOnline /\ ~friendsListDiv[1][j].isOnline
            /\ friendsListDiv[1][i].userId > friendsListDiv[1][j].userId
    /\ \E i, j \in DOMAIN usersListDiv[2] :
            /\ i < j /\ Len(usersListDiv[2]) = 3
            /\ usersListDiv[2][i].isOnline = usersListDiv[2][j].isOnline
            /\ StrLess(usersListDiv[2][i].username, usersListDiv[2][j].username)
            /\ usersListDiv[2][i].userId > usersListDiv[2][j].userId


\* The timestamps of the messages shown on page c, first to last.
ShownStamps(c) ==
    [k \in DOMAIN chatMessagesDisplay[c] |->
        messages[chatMessagesDisplay[c][k]].timestamp]

\* C24: the messages shown in a conversation view are always in ascending
\* send-timestamp order, whatever the order in which they were appended
\* (appending t=100, t=200, t=150 while subscribed shows the t=150 message
\* between the other two).
C24_ShownInTimeOrder ==
    \A c \in PageUsers :
        \A i, j \in DOMAIN ShownStamps(c) :
            i < j => ShownStamps(c)[i] <= ShownStamps(c)[j]

\* C26: for any two ids a and b, the conversation id computed by a's client
\* for partner b equals the one computed by b's client for partner a, so every
\* message sent by either is appended to the feed the other subscribes to
\* (once its selectFriend call for the sender has opened the subscription).
C26_SameConversation ==
    /\ \A a, b \in 1..(10 + NumChatUsers) : ChatId(a, b) = ChatId(b, a)
    /\ \A i \in DOMAIN messages :
            messages[i].feed.coll = "private_chats"
                => /\ messages[i].feed.id =
                        IF StrLess(StringOf(messages[i].receiverId),
                                   StringOf(messages[i].senderId))
                        THEN StringOf(messages[i].receiverId) \o <<"_">>
                                \o StringOf(messages[i].senderId)
                        ELSE StringOf(messages[i].senderId) \o <<"_">>
                                \o StringOf(messages[i].receiverId)
                   /\ \A c \in PageUsers : \A k \in DOMAIN subs[c] :
                        (/\ c = messages[i].receiverId
                         /\ selectedFriendId[c] = messages[i].senderId
                         /\ \A s \in SelCalls : s[1] = c => selpc[s] = "idle"
                         /\ subs[c][k].kind = "messages" /\ subs[c][k].live)
                            => subs[c][k].feed = messages[i].feed

\* User 2 has selected user 1 and is shown a message that user 1 sent to it.
C26_Witness ==
    /\ selectedFriendId[2] = 1
    /\ \E k \in DOMAIN chatMessagesDisplay[2] :
            /\ messages[chatMessagesDisplay[2][k]].senderId = 1
            /\ messages[chatMessagesDisplay[2][k]].receiverId = 2

HasText(text) == \E k \in DOMAIN text : text[k] # " "

\* C30: a send with invalid input (sendPrivateMessage with empty text after
\* trimming or with no selected friend, sendPublicMessage with empty text)
\* performs no append and no other store write: the step that shows the
\* warning leaves every feed and every collection unchanged, and no message
\* stored or on its way to the store lacks text or, in a private feed, a
\* receiver.
C30_InvalidSendWritesNothing ==
    /\ [](\A m \in pendingAdds \cup {messages[i] : i \in DOMAIN messages} :
            /\ HasText(m.text)
            /\ m.feed.coll = "private_chats" => m.receiverId # NoUser)
    /\ [][\A c \in PageUsers :
            (chatAlert'[c] = "warning" /\ chatAlert[c] # "warning")
                => /\ messages' = messages /\ pendingAdds' = pendingAdds
                   /\ users' = users /\ stage' = stage /\ friends' = friends
                   /\ received_friend_requests' = received_friend_requests
                   /\ sent_friend_requests' = sent_friend_requests]_vars

\* A private page with a chat partner and a public page were each refused a
\* send of blank text, and a private page without chat partner a send of text.
C30_Witness ==
    /\ chatOps = MaxChatOps
    /\ \E c \in PageUsers :
            /\ page[c] = "private" /\ chatAlert[c] = "warning"
            /\ selectedFriendId[c] = NoUser
    /\ \E c \in PageUsers : page[c] = "public" /\ chatAlert[c] = "warning"
    /\ messages = <<>> /\ pendingAdds = {}


\* Call p ends in the catch block of handleMicAction.
FailedStep(p) ==
    /\ pc[p] \in {"getDoc", "setDoc"}
    /\ pc'[p] = "idle"
    /\ lastAlert'[p[1]] = "failed"

\* C31: a mic operation whose store read or write fails is not retried (the
\* call ends), leaves the stored stage, the client's local mute state and the
\* listeners' state (deliveries due, rendered view, every subscription of the
\* pages) unchanged, and only reports the failure.
C31_FailureOnlyReported ==
    [][\A p \in Procs :
            FailedStep(p)
            => /\ action'[p] = "none"
               /\ \A q \in Procs \ {p} : pc'[q] = pc[q] /\ action'[q] = action[q]
               /\ \A c \in Clients \ {p[1]} : lastAlert'[c] = lastAlert[c]
               /\ UNCHANGED <<stage, isMuted, notify, initWrite, btnDisabled,
                              micCircles, canMicAscent, pageVars, friendVars,
                              accountVars>>]_vars

\* A toggleMute write has failed for a client that is muted: the flag and the
\* muted seat are as before the call.
C31_Witness ==
    \E p \in Procs :
        /\ pc[p] = "idle"
        /\ lastAlert[p[1]] = "failed"
        /\ isMuted[p[1]]
        /\ MutedIn(ReadMics(stage), p[1])


\* C32: each stage write changes, relative to the stored stage right before it
\* lands, only the seat of the occupant who issued it: a spot that differs
\* after the write held the writer before, or was empty and holds the writer
\* now.  (So no write re-seats an occupant who has left, evicts an occupant
\* who joined, or reverts another occupant's muted flag.)
C32_WriteChangesOwnSeatOnly ==
    [][\A p \in Procs :
            SetDocStep(p)
            => \A i \in 0..(MicCount - 1) :
                    At(ReadMics(stage'), i) # At(ReadMics(stage), i)
                    => \/ At(ReadMics(stage), i).userId = p[1]
                       \/ /\ At(ReadMics(stage), i).userId = NoUser
                          /\ At(ReadMics(stage'), i).userId = p[1]]_vars


\* C33: the initialising write a listener issued on seeing the stage absent
\* never removes an occupant: whoever is seated in the stored stage when the
\* write lands (by a request write that landed first) is seated afterwards.
C33_InitWriteKeepsOccupants ==
    [][\A c \in Clients :
            (initWrite[c] /\ ~initWrite'[c])
            => Seated(MicsOf(stage)) \subseteq Seated(MicsOf(stage'))]_vars


\* The live message subscriptions of page c.
LiveMessageSubs(c) ==
    {k \in DOMAIN subs[c] : subs[c][k].kind = "messages" /\ subs[c][k].live}

\* C34: under any interleaving of selectFriend calls, a private page has at
\* most one live message subscription, that subscription is on the conversation
\* with the friend currently selected, and no message is shown twice in the
\* view.
C34_OneSubscriptionOfSelected ==
    \A c \in PageUsers :
        page[c] = "private"
        => /\ Cardinality(LiveMessageSubs(c)) <= 1
           /\ \A k \in LiveMessageSubs(c) :
                    subs[c][k].feed = PrivateFeed(c, selectedFriendId[c])
           /\ \A i, j \in DOMAIN chatMessagesDisplay[c] :
                    i # j => chatMessagesDisplay[c][i] # chatMessagesDisplay[c][j]


\* Message i is in the view of page c.
Shown(c, i) == \E k \in DOMAIN chatMessagesDisplay[c] : chatMessagesDisplay[c][k] = i

\* Page c has a live subscription on the feed of the stored message i.
SubscribedTo(c, i) ==
    /\ i \in DOMAIN messages
    /\ \E k \in LiveMessageSubs(c) : subs[c][k].feed = messages[i].feed

\* C35: while a participant stays subscribed to a conversation, every message
\* appended to it (the store has accepted it after the page opened: timestamp
\* above 0) is eventually displayed to the participant, also when the
\* conversation already holds 50 or more messages.  Sends are finitely many and
\* the view only grows, so: again and again every appended message of a
\* conversation the page is subscribed to is in the view.
C35_AppendedEventuallyShown ==
    []<>(\A c \in PageUsers : \A i \in DOMAIN messages :
            (SubscribedTo(c, i) /\ messages[i].timestamp > 0) => Shown(c, i))


\* C36: when the store rejects nothing and sendFriendRequest(target) finds a
\* pending request received from the target, the call asks the user (it
\* suspends at the prompt, having written and reported nothing); on refusal it
\* ends with nothing changed, on confirmation it goes on to accept the request;
\* it creates no request and reports no failure.
C36_PendingFromTargetAsks ==
    [][\A f \in FCalls :
            /\ (/\ fpc[f] = "getReceived" /\ fpc'[f] # "getReceived"
                /\ ReceivedDocs(f[1], ftarget[f]) # {})
               => /\ fpc'[f] = "confirm"
                  /\ UNCHANGED <<friends, received_friend_requests,
                                 sent_friend_requests, friendAlert>>
            /\ (fpc[f] = "confirm" /\ fpc'[f] # "confirm")
               => /\ fpc'[f] \in {"idle", "acceptSetMine"}
                  /\ UNCHANGED <<friends, received_friend_requests,
                                 sent_friend_requests, friendAlert>>]_vars


\* C37: whenever no friend operation is in flight, the friend relation is
\* symmetric: A's friends contain B exactly when B's friends contain A, also
\* after operations one of whose store writes failed.
C37_FriendsSymmetric ==
    (\A f \in FCalls : fpc[f] = "idle")
    => \A A, B \in FUsers : (<<A, B>> \in friends) <=> (<<B, A>> \in friends)


\* C38: a record in A's sent requests for receiver B exists only while the
\* matching record is pending in B's received requests; hence a
\* sendFriendRequest from A to B that finds no request of A pending at B (B has
\* rejected it, or accepted it) is not refused as already sent.
C38_SentOnlyWhilePending ==
    /\ [](\A s \in sent_friend_requests :
            \E r \in received_friend_requests :
                r.id = s.id /\ r.to = s.to /\ r.from = s.owner)
    /\ [][\A f \in FCalls :
            (/\ fpc[f] = "getSent" /\ fpc'[f] # "getSent"
             /\ ReceivedDocs(ftarget[f], f[1]) = {})
            => friendAlert'[f[1]] # "alreadySent"]_vars


\* User c has blocked user x: the block record is stored and no friend
\* operation of c is in flight (a call that has stored the record always goes
\* on to report success).
HasBlocked(c, x) ==
    /\ <<c, x>> \in blocked_users
    /\ \A f \in FCalls : f[1] = c => fpc[f] = "idle"

\* C39: after a confirmed blockUser(X) has completed successfully, the blocking
\* user and X can no longer communicate: no later sendPrivateMessage of the
\* blocking user issues a message to the conversation with X, and X is not
\* selected as chat partner.
C39_BlockedNoCommunication ==
    [][\A c \in PageUsers : \A x \in FUsers :
            HasBlocked(c, x)
            => /\ ~(selectedFriendId[c] # x /\ selectedFriendId'[c] = x)
               /\ \A m \in pendingAdds' \ pendingAdds :
                    ~(m.senderId = c /\ m.feed = PrivateFeed(c, x))]_vars


\* C40: a logout click by a signed-in user first marks the user offline in the
\* store and then signs the user out, reporting success: the handler that has
\* marked the user offline goes on to the sign-out (it does not end there with
\* the user still signed in), and the session ends only for a user marked
\* offline, with the success message.
C40_LogoutMarksOfflineThenSignsOut ==
    [][\A c \in PageUsers :
            /\ (/\ logoutpc[c] = "updateDoc"
                /\ users[c].isOnline /\ ~users'[c].isOnline)
               => /\ logoutpc'[c] = "signOut"
                  /\ logoutAlert'[c] = logoutAlert[c]
            /\ (signedIn[c] /\ ~signedIn'[c])
               => /\ ~users[c].isOnline
                  /\ logoutpc'[c] = "idle"
                  /\ logoutAlert'[c] = "loggedOut"]_vars

====
